---- MODULE Spec2Model ----
(***************************************************************************)
(* Cashflow mobile client: the axios API client with its two interceptors, *)
(* the AuthProvider, and the Dividends, Risk, Portfolio, Profile, Forecast *)
(* and Home screens, as state machines.  Every handler (a callback, or the *)
(* continuation of an awaited request) is one action.  A request that has  *)
(* been sent and not yet answered is a record of `inflight`; the answer is *)
(* chosen by the environment.                                              *)
(***************************************************************************)
EXTENDS Integers, Sequences, FiniteSets, TLC

(* ------------------------------ bounds -------------------------------- *)

\* Distinct access tokens Supabase may issue.
MaxTokens == 2

\* Requests the screens and the provider send in one run of the auth model.
MaxRequests == 2

\* Portfolios GET /portfolios returns.
MaxPortfolios == 2

\* Pulls to refresh and presses on "Sync Dividends" in one run.
MaxPresses == 1

\* Presses on "Run Risk Analysis" in one run.
MaxRuns == 2

\* Presses on Add (holding), Sell and Confirm (cash) in one run.
MaxTrades == 2

\* Presses on "Sync Dividends" in one run against the backend's event store.
MaxSyncs == 2

\* Presses on "Run Forecast" in one run.
MaxForecasts == 1

\* Pulls to refresh and presses on Retry and "Create Portfolio" on the Home
\* screen in one run.
MaxHomePresses == 1

\* Calls of signIn and signInWithBiometric in one run.
MaxSignIns == 1

\* the calendar days the dates of the dividend events are taken from:
\* 1 .. MaxDay
MaxDay == 2

\* the events of one answer of GET /calendar
MaxEvents == 1

(* ----------------------------- constants ------------------------------ *)

\* null / undefined: an absent token, user or session.
None == 0

Tokens == 1 .. MaxTokens

\* error.response?.status; NoResponse stands for an error without response
\* (network error, timeout), where error.response is undefined.
NoResponse == 0
ErrorStatuses == {NoResponse, 400, 401, 500}

\* error.response?.data?.detail, NoDetail when the body carries none.
NoDetail == ""
ServerDetail == "detail"

\* The errors a request may fail with.
Errors ==
    {[status |-> NoResponse, detail |-> NoDetail]} \cup
    {[status |-> s, detail |-> d] : s \in ErrorStatuses \ {NoResponse},
                                    d \in {NoDetail, ServerDetail}}

\* null where an object is expected (a response body, a state object).
Null == [null |-> TRUE]

\* String.prototype.toUpperCase and toLowerCase, on the strings of the model
\* that hold letters of the other case.
toUpperCase(str) ==
    CASE str = "aapl" -> "AAPL"
      [] str = "low" -> "LOW"
      [] str = "moderate" -> "MODERATE"
      [] str = "high" -> "HIGH"
      [] str = "very high" -> "VERY HIGH"
      [] OTHER -> str

toLowerCase(str) ==
    CASE str = "AAPL" -> "aapl"
      [] str = "LOW" -> "low"
      [] str = "MODERATE" -> "moderate"
      [] str = "HIGH" -> "high"
      [] str = "VERY HIGH" -> "very high"
      [] OTHER -> str

StorageKeys == {"supabase_token", "supabase_user", "biometric_email", "biometric_password"}

VARIABLES
    \* AsyncStorage
    storage,
    \* AuthProvider state
    user, session, loading, sessionCheck,
    \* ApiClient: requests sent and not yet answered
    inflight,
    \* how many requests the auth model has sent
    sent,
    \* Alert.alert: how many alerts were shown, and the last one
    alerts,
    \* DividendsScreen state
    calendarData, divLoading, refreshing, syncing,
    \* DividendsScreen.syncDividends: its locals, and the user's presses
    sync, presses,
    \* RiskAnalysisScreen state; riskCopy tells which copy of the screen the
    \* repository holds is mounted, riskLast the last answer runAnalysis got
    riskCopy, riskPortfolios, selectedPortfolioId, analysisType, riskLoading,
    riskData, riskLast, riskRuns,
    \* the backend's record of the portfolio and the last trade it handled
    db, lastOp,
    \* the backend's dividend events, and how often it has synced each portfolio
    events, syncRuns,
    \* PortfolioScreen state
    portfolio, holdings, pfLoading, selectedHolding,
    \* ProfileScreen state
    profile,
    \* presses on Add, Sell and Confirm in one run
    trades,
    \* LoginScreen: its state, the text of its two fields (None when one is
    \* empty), whether the timer of the automatic biometric prompt is pending,
    \* whether the "Account Created!" dialog is open, whether the offer of
    \* the biometric login is open (or on its way), the provider's
    \* biometricAvailable, and where checkBiometricCredentials stands
    isSignUp, loginLoading, biometricLoading, hasSavedCredentials, hasAutoPrompted,
    credentials, autoTimer, verifyDialog, offer, biometricAvailable, credentialsCheck,
    \* signIn and signInWithBiometric: where the call stands, which of the two
    \* was called, the credentials passed to Supabase, what the call returned,
    \* whether the call has read the saved credentials and has called
    \* Supabase, and the number of calls
    signInPc, signInVia, signInArgs, signInResult, credentialsRead, supabaseCalled,
    signIns,
    \* AppNavigator: the routes of the stack (none while the loading view is
    \* rendered), and whether its effect on [user, loading] is yet to run
    routes, navPending,
    \* the screens that are mounted (a tab mounts on its first visit)
    mounted,
    \* ForecastScreen state, and the presses on "Run Forecast"
    forecastPortfolios, forecastPortfolioId, months, monthsText, growthScenario,
    reinvest, recurringDeposit, forecastLoading, forecastData, forecasts,
    \* HomeScreen state, its pending retry timers, and the user's presses
    homeProfile, homeLoading, homeRefreshing, showCreateModal, newPortfolioName,
    newPortfolioType, creating, retryCount, hasError, retryTimers, homePresses

authVars == <<storage, user, session, loading, sessionCheck, inflight, sent>>

apiVars == <<storage, inflight, sent>>

providerVars == <<user, session, loading, sessionCheck>>

divVars == <<calendarData, divLoading, refreshing, syncing, sync, presses>>

riskVars == <<riskCopy, riskPortfolios, selectedPortfolioId, analysisType,
              riskLoading, riskData, riskLast, riskRuns>>

backendVars == <<db, lastOp>>

pfVars == <<portfolio, holdings, pfLoading, selectedHolding>>

profileVars == <<profile>>

tradeVars == <<backendVars, pfVars, profileVars, trades>>

forecastVars == <<forecastPortfolios, forecastPortfolioId, months, monthsText,
                  growthScenario, reinvest, recurringDeposit, forecastLoading,
                  forecastData, forecasts>>

homeVars == <<homeProfile, homeLoading, homeRefreshing, showCreateModal,
              newPortfolioName, newPortfolioType, creating, retryCount, hasError,
              retryTimers, homePresses>>

\* the backend's dividend store
storeVars == <<events, syncRuns>>

navVars == <<routes, navPending>>

loginVars == <<isSignUp, loginLoading, biometricLoading, hasSavedCredentials,
               hasAutoPrompted, credentials, autoTimer, verifyDialog, offer,
               biometricAvailable, credentialsCheck>>

signVars == <<signInPc, signInVia, signInArgs, signInResult, credentialsRead,
              supabaseCalled, signIns>>

\* everything the screens own, and the backend behind them
screenVars == <<alerts, divVars, riskVars, tradeVars, mounted, forecastVars, homeVars,
                storeVars, signVars>>

\* what neither the provider's sign-in functions nor the Login screen that
\* calls them ever touch, the navigator aside
otherThanSignIn == <<divVars, riskVars, tradeVars, mounted, forecastVars,
                     homeVars, storeVars>>

\* what neither the Dividends screen's handlers nor the sync they ask the
\* backend for touch
otherThanSync == <<providerVars, riskVars, tradeVars, mounted, forecastVars, homeVars,
                   navVars, signVars,
                   loginVars>>

\* what the Dividends screen's handlers never touch
otherThanDiv == <<otherThanSync, storeVars>>

\* what the Risk screen's handlers never touch
otherThanRisk == <<providerVars, sent, divVars, tradeVars, mounted, forecastVars, homeVars,
                   storeVars, navVars, signVars,
                   loginVars>>

\* what the Portfolio and Profile screens' handlers never touch
otherThanTrade == <<providerVars, sent, divVars, riskVars, mounted, forecastVars, homeVars,
                   storeVars, navVars, signVars,
                   loginVars>>

\* what the Forecast screen's handlers never touch
otherThanForecast == <<providerVars, sent, divVars, riskVars, tradeVars, mounted, homeVars,
                   storeVars, navVars, signVars,
                   loginVars>>

\* what the Home screen's handlers never touch
otherThanHome == <<providerVars, sent, divVars, riskVars, tradeVars, mounted, forecastVars,
                   storeVars, navVars, signVars,
                   loginVars>>

vars == <<storage, user, session, loading, sessionCheck, inflight, sent,
          alerts, calendarData, divLoading, refreshing, syncing, sync, presses,
          riskCopy, riskPortfolios, selectedPortfolioId, analysisType, riskLoading,
          riskData, riskLast, riskRuns,
          db, lastOp, portfolio, holdings, pfLoading, selectedHolding,
          profile, trades, mounted, forecastVars, homeVars, storeVars, navVars, signVars,
                   loginVars>>

(* ----------------------------- ApiClient ------------------------------ *)

NoAuthorization == <<>>

Bearer(token) == <<"Bearer", token>>

\* Mutant: the interceptor attaches nothing.
requestInterceptorNoHeader(token) == NoAuthorization

\* The request interceptor: the Authorization header it leaves on the
\* request, given what AsyncStorage.getItem('supabase_token') returned.
requestInterceptor(token) ==
    IF token # None THEN Bearer(token) ELSE NoAuthorization

\* The response interceptor's error branch: AsyncStorage after it.
responseInterceptor(status, st) ==
    IF status = 401
    THEN [st EXCEPT !["supabase_token"] = None, !["supabase_user"] = None]
    ELSE st

\* An id no request of fl carries (two equal requests may be in flight).
NewId(fl) ==
    CHOOSE i \in 1 .. Cardinality(fl) + 1 : \A r \in fl : r.id # i

\* The request record the client puts on the wire, fl being the requests in
\* flight.  `stored` remembers what the storage held when the interceptor ran.
Request(fl, method, path, caller, st) ==
    [id |-> NewId(fl), method |-> method, path |-> path, caller |-> caller,
     Authorization |-> requestInterceptor(st["supabase_token"]),
     stored |-> st["supabase_token"]]

Methods == {"get", "post", "put", "delete"}

\* All endpoints expect a bearer token.
Authorized(r) == r.Authorization # NoAuthorization

\* Mutant: the catch block shows its fallback whatever the response holds.
DetailOrFallback(err, fallback) == fallback

\* error.response?.data?.detail || fallback
DetailOr(err, fallback) ==
    IF err.detail # NoDetail THEN err.detail ELSE fallback

\* Alert.alert(title, message)
Push(al, title, message) ==
    [count |-> al.count + 1, last |-> <<title, message>>]

NoAlerts == [count |-> 0, last |-> <<"", <<>>>>]

\* api.get / api.post / api.put / api.delete called by some screen.
ApiCall(method) ==
    /\ sent < MaxRequests
    /\ sent' = sent + 1
    /\ inflight' = inflight \cup {Request(inflight, method, <<"any">>, "screen", storage)}
    /\ UNCHANGED <<storage, user, session, loading, sessionCheck>>
    /\ UNCHANGED screenVars

\* The request is answered with success: the promise resolves.
ApiResolve(r) ==
    /\ r \in inflight
    /\ inflight' = inflight \ {r}
    /\ UNCHANGED <<storage, user, session, loading, sessionCheck, sent>>
    /\ UNCHANGED screenVars

\* The request fails: the response interceptor runs, then the error is
\* rejected to the caller (whose catch block is the caller's business).
ApiReject(r, err) ==
    /\ r \in inflight
    /\ inflight' = inflight \ {r}
    /\ storage' = responseInterceptor(err.status, storage)
    /\ UNCHANGED <<user, session, loading, sessionCheck, sent>>
    /\ UNCHANGED screenVars

(* ---------------------------- AuthProvider ---------------------------- *)

\* session.user of a session (one account signs in on this device).
UserOf(token) == 1

\* initializeUserInBackend(token): stores the token, then POSTs
\* /me/init-supabase; its own catch swallows a failure.
InitializeUserInBackend(token, st, fl, n) ==
    LET st1 == [st EXCEPT !["supabase_token"] = token]
    IN  [storage |-> st1,
         inflight |-> fl \cup {Request(fl, "post", <<"me/init-supabase">>, "init", st1)},
         sent |-> n + 1]

\* Promise.race([getSession, timeout]).then(result): result is null (the
\* timeout won), or carries data.session (None when no session is saved).
SessionCheckThen(hasData, sess) ==
    /\ sessionCheck = "pending"
    /\ sessionCheck' = "done"
    /\ loading' = FALSE
    /\ IF hasData
       THEN /\ session' = sess
            /\ user' = IF sess # None THEN UserOf(sess) ELSE None
            /\ IF sess # None
               THEN /\ sent < MaxRequests
                    /\ LET st1 == [storage EXCEPT !["supabase_token"] = sess,
                                                  !["supabase_user"] = UserOf(sess)]
                           r == InitializeUserInBackend(sess, st1, inflight, sent)
                       IN  /\ storage' = r.storage
                           /\ inflight' = r.inflight
                           /\ sent' = r.sent
               ELSE UNCHANGED <<storage, inflight, sent>>
       ELSE UNCHANGED <<session, user, storage, inflight, sent>>
    /\ UNCHANGED screenVars

\* Mutant: the .catch only logs the error.
SessionCheckCatchOnlyLogs ==
    /\ sessionCheck = "pending"
    /\ sessionCheck' = "done"
    /\ UNCHANGED <<loading, storage, user, session, inflight, sent>>
    /\ UNCHANGED screenVars

\* .catch of the session check (getSession rejected).
SessionCheckCatch ==
    /\ sessionCheck = "pending"
    /\ sessionCheck' = "done"
    /\ loading' = FALSE
    /\ UNCHANGED <<storage, user, session, inflight, sent>>
    /\ UNCHANGED screenVars

\* The 5-second timer resolves the race with null before getSession has
\* answered: .then(null).
SessionCheckTimeout == SessionCheckThen(FALSE, None)

\* The onAuthStateChange callback, called by Supabase with the new session
\* (sign in, token refresh) or with null (sign out).
OnAuthStateChange(sess) ==
    /\ session' = sess
    /\ user' = IF sess # None THEN UserOf(sess) ELSE None
    /\ IF sess # None
       THEN /\ sent < MaxRequests
            /\ LET st1 == [storage EXCEPT !["supabase_token"] = sess,
                                          !["supabase_user"] = UserOf(sess)]
                   r == InitializeUserInBackend(sess, st1, inflight, sent)
               IN  /\ storage' = r.storage
                   /\ inflight' = r.inflight
                   /\ sent' = r.sent
       ELSE /\ storage' = [storage EXCEPT !["supabase_token"] = None,
                                          !["supabase_user"] = None]
            /\ UNCHANGED <<inflight, sent>>
    /\ UNCHANGED <<loading, sessionCheck>>
    /\ UNCHANGED screenVars

\* Mutant: signing out forgets the saved biometric credentials too.
SignOutForgetsAll ==
    /\ user # None
    /\ session' = None
    /\ user' = None
    /\ storage' = [k \in StorageKeys |-> None]
    /\ UNCHANGED <<loading, sessionCheck, inflight, sent>>
    /\ UNCHANGED screenVars

\* signOut(): supabase.auth.signOut() (which notifies the subscriber with
\* null), then the two removeItem calls.
SignOut ==
    /\ user # None
    /\ session' = None
    /\ user' = None
    /\ storage' = [storage EXCEPT !["supabase_token"] = None,
                                  !["supabase_user"] = None]
    /\ UNCHANGED <<loading, sessionCheck, inflight, sent>>
    /\ UNCHANGED screenVars

(* ------------------- AuthProvider: signing in ------------------------- *)

\* One account signs in on this device; 1 stands for its email and for its
\* password.
Accounts == {1}

NoArgs == [email |-> None, password |-> None]

\* What a call has produced: nothing yet, a returned object whose error is
\* "" when it has no error property, or an exception.
NoResult == [kind |-> "none", error |-> ""]
Returned(error) == [kind |-> "returned", error |-> error]
Threw(message) == [kind |-> "threw", error |-> message]

\* What supabase.auth.signInWithPassword may do: resolve with an error,
\* with a session, with neither, or throw (an exception may have no message).
SupabaseOutcomes ==
    {[kind |-> "error", message |-> "Invalid login credentials", session |-> None],
     [kind |-> "nosession", message |-> "", session |-> None],
     [kind |-> "throws", message |-> "Network request failed", session |-> None],
     [kind |-> "throws", message |-> "", session |-> None]} \cup
    {[kind |-> "session", message |-> "", session |-> t] : t \in Tokens}

\* What LocalAuthentication.authenticateAsync may do.
BiometricOutcomes ==
    {[kind |-> "success", error |-> ""],
     [kind |-> "failed", error |-> "user_cancel"],
     [kind |-> "failed", error |-> "authentication_failed"],
     [kind |-> "throws", error |-> "Biometric unavailable"],
     [kind |-> "throws", error |-> ""]}

\* error.message || fallback
MessageOr(message, fallback) == IF message # "" THEN message ELSE fallback

\* signIn's return when Supabase gave no session: the error, the missing
\* session, or the outer catch.
signInNoSession(o) ==
    CASE o.kind = "error" -> Returned(o.message)
      [] o.kind = "nosession" -> Returned("Sign in successful but no session was created")
      [] o.kind = "throws" -> Returned(MessageOr(o.message, "Sign in failed"))

\* Mutant: a failed initialization fails the sign in.
signInAfterInitStrict(initOk) ==
    IF initOk THEN Returned("") ELSE Returned("Backend initialization failed")

\* signIn's return after the awaited initializeUserInBackend, which
\* resolved with the POST's result or with null.
signInAfterInit(initOk) == Returned("")

\* signIn(email, password) up to the await of signInWithPassword.
SignInCall(email, password, via) ==
    /\ signInPc' = "supabase"
    /\ signInVia' = via
    /\ signInArgs' = [email |-> email, password |-> password]
    /\ supabaseCalled' = TRUE
    /\ signInResult' = NoResult

\* handleSubmit of the Login screen calls signIn.
SignIn(email, password) ==
    /\ signInPc = "idle"
    /\ signIns < MaxSignIns
    /\ signIns' = signIns + 1
    /\ SignInCall(email, password, "password")
    /\ credentialsRead' = FALSE
    /\ UNCHANGED <<storage, user, session, loading, sessionCheck, inflight, sent>>
    /\ UNCHANGED otherThanSignIn

\* signInWithPassword has answered.  With a session signIn awaits
\* initializeUserInBackend, whose POST carries the caller "signin" here to
\* tell it from the POSTs nobody awaits.
SignInSupabase(o) ==
    /\ signInPc = "supabase"
    /\ IF o.kind = "session"
       THEN /\ sent < MaxRequests
            /\ LET st1 == [storage EXCEPT !["supabase_token"] = o.session]
               IN  /\ storage' = st1
                   /\ inflight' = inflight \cup
                         {Request(inflight, "post", <<"me/init-supabase">>, "signin", st1)}
            /\ sent' = sent + 1
            /\ signInPc' = "init"
            /\ UNCHANGED signInResult
       ELSE /\ signInPc' = "idle"
            /\ signInResult' = signInNoSession(o)
            /\ UNCHANGED <<storage, inflight, sent>>
    /\ UNCHANGED <<signInVia, signInArgs, credentialsRead, supabaseCalled, signIns>>
    /\ UNCHANGED <<user, session, loading, sessionCheck>>
    /\ UNCHANGED otherThanSignIn

\* The awaited POST /me/init-supabase succeeded.
SignInInitOk(r) ==
    /\ signInPc = "init"
    /\ r \in inflight /\ r.caller = "signin"
    /\ inflight' = inflight \ {r}
    /\ signInPc' = "idle"
    /\ signInResult' = signInAfterInit(TRUE)
    /\ UNCHANGED <<signInVia, signInArgs, credentialsRead, supabaseCalled, signIns>>
    /\ UNCHANGED <<storage, user, session, loading, sessionCheck, sent>>
    /\ UNCHANGED otherThanSignIn

\* The awaited POST failed: the response interceptor, then the catch of
\* initializeUserInBackend, which returns null.
SignInInitFail(r, err) ==
    /\ signInPc = "init"
    /\ r \in inflight /\ r.caller = "signin"
    /\ inflight' = inflight \ {r}
    /\ storage' = responseInterceptor(err.status, storage)
    /\ signInPc' = "idle"
    /\ signInResult' = signInAfterInit(FALSE)
    /\ UNCHANGED <<signInVia, signInArgs, credentialsRead, supabaseCalled, signIns>>
    /\ UNCHANGED <<user, session, loading, sessionCheck, sent>>
    /\ UNCHANGED otherThanSignIn

\* hasBiometricCredentials(): !!(email && password)
hasBiometricCredentials(st) ==
    st["biometric_email"] # None /\ st["biometric_password"] # None

\* saveBiometricCredentials(email, password), which the Login screen calls
\* with the credentials of the sign in that has just succeeded.  The first
\* setItem may throw (saved = 0), or the second (saved = 1); the catch logs.
SaveBiometricCredentials(saved) ==
    /\ signInPc = "idle"
    /\ signInVia \in {"password", "signup"}
    /\ signInResult = Returned("")
    /\ storage' = [storage EXCEPT
                     !["biometric_email"] =
                        IF saved >= 1 THEN signInArgs.email ELSE @,
                     !["biometric_password"] =
                        IF saved >= 2 THEN signInArgs.password ELSE @]
    /\ UNCHANGED signVars
    /\ UNCHANGED <<user, session, loading, sessionCheck, inflight, sent>>
    /\ UNCHANGED otherThanSignIn

\* signInWithBiometric() up to the await of authenticateAsync.
SignInWithBiometric ==
    /\ signInPc = "idle"
    /\ signIns < MaxSignIns
    /\ signIns' = signIns + 1
    /\ signInPc' = "prompt"
    /\ signInVia' = "biometric"
    /\ signInArgs' = NoArgs
    /\ signInResult' = NoResult
    /\ credentialsRead' = FALSE
    /\ supabaseCalled' = FALSE
    /\ UNCHANGED <<storage, user, session, loading, sessionCheck, inflight, sent>>
    /\ UNCHANGED otherThanSignIn

\* Mutant: the saved credentials are used unless the prompt threw.
biometricPassedUnlessThrown(o) == o.kind # "throws"

\* result.success
biometricPassed(o) == o.kind = "success"

\* The return of signInWithBiometric when the check did not succeed.
biometricRefused(o) ==
    IF o.kind = "throws"
    THEN Returned(MessageOr(o.error, "Biometric authentication failed"))
    ELSE Returned(IF o.error = "user_cancel"
                  THEN "Authentication cancelled"
                  ELSE "Biometric authentication failed")

\* authenticateAsync has answered: the rest of signInWithBiometric up to
\* its return or to the await inside signIn.
BiometricAnswer(o) ==
    /\ signInPc = "prompt"
    /\ IF ~biometricPassed(o)
       THEN /\ signInPc' = "idle"
            /\ signInResult' = biometricRefused(o)
            /\ UNCHANGED <<signInVia, signInArgs, credentialsRead, supabaseCalled>>
       ELSE /\ credentialsRead' = TRUE
            /\ IF ~hasBiometricCredentials(storage)
               THEN /\ signInPc' = "idle"
                    /\ signInResult' = Returned("No saved credentials found. Please sign in with email and password first, then enable biometric login.")
                    /\ UNCHANGED <<signInVia, signInArgs, supabaseCalled>>
               ELSE SignInCall(storage["biometric_email"],
                               storage["biometric_password"], "biometric")
    /\ UNCHANGED signIns
    /\ UNCHANGED <<storage, user, session, loading, sessionCheck, inflight, sent>>
    /\ UNCHANGED otherThanSignIn

(* ---------------------------- AppNavigator ---------------------------- *)

\* const initialRoute = user ? "Main" : "Login"
initialRoute(u) == IF u # None THEN "Main" ELSE "Login"

\* Mutant: the effect resets to Main whoever is signed in.
resetRouteMain(u) == "Main"

\* The route the effect resets the stack to.
resetRoute(u) == IF u # None THEN "Main" ELSE "Login"

\* AppNavigator rendered again after a step of the provider: the
\* NavigationContainer is mounted when the loading view goes, and the effect
\* is scheduled when user or loading has changed.
AppNavigatorRender ==
    /\ routes' = IF loading /\ ~loading' THEN <<initialRoute(user')>> ELSE routes
    /\ navPending' = (navPending \/ user' # user \/ loading' # loading)

\* The effect on [user, loading]: nothing while loading or while no
\* container is mounted, else the reset.
NavigatorEffect ==
    /\ navPending
    /\ navPending' = FALSE
    /\ routes' = IF ~loading /\ routes # <<>> THEN <<resetRoute(user)>> ELSE routes
    /\ UNCHANGED <<storage, user, session, loading, sessionCheck, inflight, sent>>
    /\ UNCHANGED screenVars

\* The press on a portfolio's card on the Home tab.
NavigatePortfolio ==
    /\ routes = <<"Main">>
    /\ routes' = <<"Main", "Portfolio">>
    /\ UNCHANGED <<navPending, storage, user, session, loading, sessionCheck, inflight, sent>>
    /\ UNCHANGED screenVars

\* The header's back button on the Portfolio screen.
GoBack ==
    /\ Len(routes) > 1
    /\ routes' = SubSeq(routes, 1, Len(routes) - 1)
    /\ UNCHANGED <<navPending, storage, user, session, loading, sessionCheck, inflight, sent>>
    /\ UNCHANGED screenVars

(* ----------------------------- LoginScreen ---------------------------- *)

LoginMounted == routes = <<"Login">>

\* The buttons are disabled while loading or biometricLoading; an open
\* dialog is in front of them.
LoginEnabled == LoginMounted /\ ~loginLoading /\ ~biometricLoading /\ ~verifyDialog

\* Mutant: the automatic prompt does not wait for a password sign-in.
autoPromptDueWhileLoading(saved, available, signUp, ld, bl, prompted) ==
    saved /\ available /\ ~signUp /\ ~bl /\ ~prompted

\* The condition of the effect that arms the automatic biometric prompt.
autoPromptDue(saved, available, signUp, ld, bl, prompted) ==
    saved /\ available /\ ~signUp /\ ~ld /\ ~bl /\ ~prompted

\* The dependencies of that effect.
loginDeps == <<hasSavedCredentials, biometricAvailable, isSignUp, loginLoading,
               biometricLoading, hasAutoPrompted>>

\* The effect after the render that follows a step of the screen: when a
\* dependency has changed its cleanup clears the timer and a new one is
\* armed if the condition holds; an unmounted screen has no timer.
LoginEffects ==
    autoTimer' =
        IF ~LoginMounted THEN FALSE
        ELSE IF loginDeps' # loginDeps
             THEN autoPromptDue(hasSavedCredentials', biometricAvailable', isSignUp',
                                loginLoading', biometricLoading', hasAutoPrompted')
             ELSE autoTimer

\* what a handler of LoginScreen that calls nothing of the provider leaves
\* alone
loginOnly == <<storage, user, session, loading, sessionCheck, inflight, sent,
               signVars, navVars, otherThanSignIn>>

\* checkBiometricCredentials(), called at the mount, has its answer.
CheckBiometricCredentials ==
    /\ LoginMounted
    /\ credentialsCheck = "pending"
    /\ credentialsCheck' = "done"
    /\ hasSavedCredentials' = hasBiometricCredentials(storage)
    /\ UNCHANGED <<isSignUp, loginLoading, biometricLoading, hasAutoPrompted, credentials,
                   verifyDialog, offer, biometricAvailable, alerts>>
    /\ LoginEffects
    /\ UNCHANGED loginOnly

\* checkBiometricAvailability() of the provider finds hardware and an
\* enrolled biometric after the screen has mounted.
CheckBiometricAvailability ==
    /\ ~biometricAvailable
    /\ biometricAvailable' = TRUE
    /\ UNCHANGED <<isSignUp, loginLoading, biometricLoading, hasSavedCredentials,
                   hasAutoPrompted, credentials, verifyDialog, offer, credentialsCheck, alerts>>
    /\ LoginEffects
    /\ UNCHANGED loginOnly

\* The email and password fields, empty at the mount, are filled.
SetCredentials(a) ==
    /\ LoginEnabled
    /\ credentials # a
    /\ credentials' = a
    /\ UNCHANGED <<isSignUp, loginLoading, biometricLoading, hasSavedCredentials,
                   hasAutoPrompted, verifyDialog, offer, biometricAvailable, credentialsCheck,
                   alerts>>
    /\ LoginEffects
    /\ UNCHANGED loginOnly

\* The press on the switch between sign in and sign up, with the effect on
\* [isSignUp] that resets hasAutoPrompted in sign-up mode.
ToggleSignUp ==
    /\ LoginEnabled
    /\ isSignUp' = ~isSignUp
    /\ hasAutoPrompted' = IF isSignUp' THEN FALSE ELSE hasAutoPrompted
    /\ UNCHANGED <<loginLoading, biometricLoading, hasSavedCredentials, credentials,
                   verifyDialog, offer, biometricAvailable, credentialsCheck, alerts>>
    /\ LoginEffects
    /\ UNCHANGED loginOnly

\* handleSubmit with an empty field.
HandleSubmitEmpty ==
    /\ LoginEnabled
    /\ credentials = None
    /\ alerts.last # <<"Error", <<"Please fill in all fields">>>>
    /\ alerts' = Push(alerts, "Error", <<"Please fill in all fields">>)
    /\ UNCHANGED loginVars
    /\ UNCHANGED loginOnly

\* handleSubmit in sign-in mode, up to the await inside signIn.
HandleSubmitSignIn ==
    /\ LoginEnabled
    /\ ~isSignUp
    /\ credentials # None
    /\ SignIn(credentials, credentials)
    /\ loginLoading' = TRUE
    /\ UNCHANGED <<isSignUp, biometricLoading, hasSavedCredentials, hasAutoPrompted,
                   credentials, verifyDialog, offer, biometricAvailable, credentialsCheck, alerts>>
    /\ LoginEffects

\* signUp's return: {error}, {session} or {}.
signUpReturn(o) ==
    CASE o.kind = "error" -> Returned(o.message)
      [] o.kind = "throws" -> Returned(MessageOr(o.message, "Sign up failed"))
      [] OTHER -> Returned("")

\* What handleSubmit does with the result: the error alert, the offer of
\* the biometric login, the "Account Created!" message, or nothing.
afterSubmit(error, available, saved, signUp, hasSession) ==
    IF error # "" THEN "error"
    ELSE IF available /\ ~saved THEN "offer"
    ELSE IF signUp /\ ~hasSession THEN "verify"
    ELSE "nothing"

\* handleSubmit and handleBiometricSignIn after a step of signIn or of
\* signInWithBiometric: when the call has returned, the loading flag goes
\* and an error is shown.
HandlerResumes ==
    /\ loginLoading' = IF signInPc' = "idle" /\ signInVia' # "biometric"
                       THEN FALSE ELSE loginLoading
    /\ biometricLoading' = IF signInPc' = "idle" /\ signInVia' = "biometric"
                           THEN FALSE ELSE biometricLoading
    /\ alerts' = IF signInPc' = "idle" /\ signInResult'.error # ""
                 THEN Push(alerts,
                           IF signInVia' = "biometric"
                           THEN "Authentication Failed" ELSE "Error",
                           <<signInResult'.error>>)
                 ELSE alerts
    /\ offer' = IF /\ signInPc' = "idle" /\ signInVia' # "biometric"
                   /\ afterSubmit(signInResult'.error, biometricAvailable,
                                  hasSavedCredentials, isSignUp, TRUE) = "offer"
                THEN TRUE ELSE offer
    /\ UNCHANGED <<isSignUp, hasSavedCredentials, hasAutoPrompted, credentials,
                   verifyDialog, biometricAvailable, credentialsCheck>>
    /\ LoginEffects

\* The "Enable" button of the offer: saveBiometricCredentials (which never
\* throws), setHasSavedCredentials(true) and the confirmation.
EnableBiometric(saved) ==
    /\ offer
    /\ offer' = FALSE
    /\ SaveBiometricCredentials(saved)
    /\ hasSavedCredentials' = TRUE
    /\ alerts' = Push(alerts, "Biometric Login Enabled", <<"You can now sign in quickly">>)
    /\ UNCHANGED <<isSignUp, loginLoading, biometricLoading, hasAutoPrompted, credentials,
                   verifyDialog, biometricAvailable, credentialsCheck>>
    /\ LoginEffects

\* The "Not Now" button of the offer.
DeclineBiometric ==
    /\ offer
    /\ offer' = FALSE
    /\ UNCHANGED <<isSignUp, loginLoading, biometricLoading, hasSavedCredentials,
                   hasAutoPrompted, credentials, autoTimer, verifyDialog,
                   biometricAvailable, credentialsCheck, alerts>>
    /\ UNCHANGED loginOnly

\* handleSubmit in sign-up mode, up to the await inside signUp.
HandleSubmitSignUp ==
    /\ LoginEnabled
    /\ isSignUp
    /\ credentials # None
    /\ signInPc = "idle"
    /\ signIns < MaxSignIns
    /\ signIns' = signIns + 1
    /\ signInPc' = "signup"
    /\ signInVia' = "signup"
    /\ signInArgs' = [email |-> credentials, password |-> credentials]
    /\ supabaseCalled' = TRUE
    /\ credentialsRead' = FALSE
    /\ signInResult' = NoResult
    /\ loginLoading' = TRUE
    /\ UNCHANGED <<isSignUp, biometricLoading, hasSavedCredentials, hasAutoPrompted,
                   credentials, verifyDialog, offer, biometricAvailable, credentialsCheck, alerts>>
    /\ LoginEffects
    /\ UNCHANGED <<storage, user, session, loading, sessionCheck, inflight, sent>>
    /\ UNCHANGED otherThanSignIn

\* supabase.auth.signUp has answered: the rest of signUp, then the rest of
\* handleSubmit.
SignUpAnswer(o) ==
    /\ signInPc = "signup"
    /\ signInPc' = "idle"
    /\ signInResult' = signUpReturn(o)
    /\ IF o.kind = "session"
       THEN /\ session' = o.session
            /\ user' = UserOf(o.session)
            /\ storage' = [storage EXCEPT !["supabase_token"] = o.session,
                                          !["supabase_user"] = UserOf(o.session)]
       ELSE UNCHANGED <<session, user, storage>>
    /\ loginLoading' = FALSE
    /\ LET then == afterSubmit(signUpReturn(o).error, biometricAvailable,
                               hasSavedCredentials, isSignUp, o.kind = "session")
       IN  /\ alerts' = CASE then = "error" ->
                               Push(alerts, "Error", <<signUpReturn(o).error>>)
                          [] then = "verify" ->
                               Push(alerts, "Account Created!",
                                    <<"Please check your email for verification, then sign in.">>)
                          [] OTHER -> alerts
           /\ verifyDialog' = (then = "verify")
           /\ offer' = (offer \/ then = "offer")
    /\ UNCHANGED <<isSignUp, biometricLoading, hasSavedCredentials, hasAutoPrompted,
                   credentials, biometricAvailable, credentialsCheck>>
    /\ LoginEffects
    /\ UNCHANGED <<signInVia, signInArgs, credentialsRead, supabaseCalled, signIns>>
    /\ UNCHANGED <<loading, sessionCheck, inflight, sent>>
    /\ UNCHANGED otherThanSignIn

\* The OK button of the "Account Created!" dialog.
AcknowledgeAccountCreated ==
    /\ verifyDialog
    /\ verifyDialog' = FALSE
    /\ isSignUp' = FALSE
    /\ UNCHANGED <<loginLoading, biometricLoading, hasSavedCredentials, hasAutoPrompted,
                   credentials, offer, biometricAvailable, credentialsCheck, alerts>>
    /\ LoginEffects
    /\ UNCHANGED loginOnly

\* handleBiometricSignIn up to the await inside signInWithBiometric.
handleBiometricSignIn ==
    /\ biometricLoading' = TRUE
    /\ SignInWithBiometric
    /\ UNCHANGED <<isSignUp, loginLoading, hasSavedCredentials, credentials, verifyDialog, offer,
                   biometricAvailable, credentialsCheck, alerts>>
    /\ LoginEffects

\* The press on the biometric button, shown in sign-in mode when biometrics
\* are available and credentials are saved.
BiometricPress ==
    /\ LoginEnabled
    /\ biometricAvailable /\ hasSavedCredentials /\ ~isSignUp
    /\ UNCHANGED hasAutoPrompted
    /\ handleBiometricSignIn

\* The timer of the automatic prompt fires after its second.
AutoPromptFires ==
    /\ LoginMounted
    /\ autoTimer
    /\ hasAutoPrompted' = TRUE
    /\ handleBiometricSignIn

\* The navigator's effect takes the Login screen off the stack: the
\* cleanup of the unmount clears the timer, and the state of the screen is
\* gone (what is left is what a new mount would start with); the closures
\* of a handleSubmit that has not returned keep hasSavedCredentials, and an
\* offer stays open.
LoginNavigatorEffect ==
    /\ NavigatorEffect
    /\ IF routes' = <<"Login">>
       THEN UNCHANGED <<isSignUp, loginLoading, biometricLoading, hasAutoPrompted,
                        credentials, autoTimer, verifyDialog, credentialsCheck>>
       ELSE /\ isSignUp' = FALSE
            /\ loginLoading' = FALSE
            /\ biometricLoading' = FALSE
            /\ hasAutoPrompted' = FALSE
            /\ credentials' = None
            /\ autoTimer' = FALSE
            /\ verifyDialog' = FALSE
            /\ credentialsCheck' = "pending"
    /\ UNCHANGED <<biometricAvailable, hasSavedCredentials, offer>>

(* --------------------------- DividendsScreen -------------------------- *)

\* calendarData: null, or { events: [...] }
EmptyCalendar == [events |-> <<>>]

\* What GET /calendar may answer with: a null body, or events.
CalendarResponses == {Null, EmptyCalendar, [events |-> <<1>>]}

\* ex_date and pay_date (string | null) as the JSON of the calendar carries
\* them: null, an ISO date ("2024-05-01"), or an ISO date-time without an
\* offset ("2024-05-01T00:00:00").  day is the calendar day that is written.
Days == 1 .. MaxDay

DateForms == {"date", "datetime"}

\* null, or a date in the form f
DateStrings(f) == {Null} \cup {[form |-> f, day |-> d] : d \in Days}

\* DividendEvent: the symbol, the cash and the shares play no part in the
\* lists; the two dates of an event are written in the same form.
DividendEvents ==
    UNION {{[symbol |-> "aapl", ex_date |-> x, pay_date |-> p, cash |-> 1, shares |-> 1] :
               x \in DateStrings(f), p \in DateStrings(f)} : f \in DateForms}

RECURSIVE EventLists(_)
EventLists(n) ==
    IF n = 0 THEN {<<>>}
    ELSE EventLists(n - 1) \cup
         {Append(q, e) : q \in {l \in EventLists(n - 1) : Len(l) = n - 1},
                         e \in DividendEvents}

\* What GET /calendar may answer with when the events carry their dates.
DatedCalendars == {Null} \cup {[events |-> l] : l \in EventLists(MaxEvents)}

\* Time is counted in hours since the epoch (UTC); a device is utcOffset
\* hours ahead of UTC (behind it when negative).
HoursPerDay == 24

\* The device's time zones and the readings of its clock that are looked at.
UtcOffsets == {-5, 0, 2}

Clocks == {HoursPerDay * d + h : d \in Days, h \in {0, 12}}

\* new Date(dateStr): a date-only form is taken as UTC midnight, a date-time
\* form without offset as local time.
parseDate(dateStr, utcOffset) ==
    IF dateStr.form = "date"
    THEN HoursPerDay * dateStr.day
    ELSE HoursPerDay * dateStr.day - utcOffset

\* date.setHours(0, 0, 0, 0): the start of the local day of t.
setHoursZero(t, utcOffset) ==
    HoursPerDay * ((t + utcOffset) \div HoursPerDay) - utcOffset

\* e.pay_date || e.ex_date
eventDateStr(e) == IF e.pay_date # Null THEN e.pay_date ELSE e.ex_date

\* The filter of upcomingEvents, now being what new Date() reads.
isUpcoming(e, now, utcOffset) ==
    LET dateStr == eventDateStr(e)
    IN  IF dateStr = Null THEN FALSE
        ELSE setHoursZero(parseDate(dateStr, utcOffset), utcOffset)
                >= setHoursZero(now, utcOffset)

\* The filter of pastEvents.
isPast(e, now, utcOffset) ==
    LET dateStr == eventDateStr(e)
    IN  IF dateStr = Null THEN FALSE
        ELSE setHoursZero(parseDate(dateStr, utcOffset), utcOffset)
                < setHoursZero(now, utcOffset)

upcomingEvents(cal, now, utcOffset) ==
    SelectSeq(cal.events, LAMBDA e : isUpcoming(e, now, utcOffset))

pastEvents(cal, now, utcOffset) ==
    SelectSeq(cal.events, LAMBDA e : isPast(e, now, utcOffset))

\* What POST /dividends/sync/portfolio/{id} may answer with: a null body, or
\* the number of symbols and of inserted events.
SyncResults ==
    {Null, [symbols |-> 0, inserted |-> 0],
     [symbols |-> 1, inserted |-> 0], [symbols |-> 1, inserted |-> 1]}

\* What GET /portfolios may answer with: a null body, or the portfolios.
PortfolioLists ==
    {Null} \cup {[list |-> [i \in 1 .. n |-> i]] : n \in 0 .. MaxPortfolios}

\* What GET /portfolios/{id} may answer with: a null body, or the number of
\* holdings.
PortfolioDetails == {Null} \cup {[holdings |-> n] : n \in 0 .. 1}

IdleSync ==
    [pc |-> "idle", list |-> <<>>, idx |-> 0, portfoliosSynced |-> 0,
     totalSymbols |-> 0, totalInserted |-> 0, errors |-> <<>>,
     issued |-> <<>>, summary |-> ""]

\* Mutant: authentication failures are silent too.
loadCalendarAlertsNot401(err) == err.status \notin {500, 401}

\* loadCalendar's catch: only non-500 errors alert.
loadCalendarAlerts(err) == err.status # 500

\* loadCalendar up to its request: setLoading(true), GET /calendar.
LoadCalendarCall(caller) ==
    /\ divLoading' = TRUE
    /\ inflight' = inflight \cup {Request(inflight, "get", <<"calendar">>, caller, storage)}

\* calendarData after loadCalendar's try or catch.
loadCalendarData(ok, data) ==
    IF ok /\ data # Null THEN data ELSE EmptyCalendar

\* The alerts after loadCalendar's catch.
loadCalendarCatch(err, al) ==
    IF loadCalendarAlerts(err)
    THEN Push(al, "Error", <<DetailOr(err, "Failed to load dividend calendar")>>)
    ELSE al

\* onRefresh: pull to refresh on the scroll view (not shown while loading).
OnRefresh ==
    /\ ~divLoading
    /\ presses < MaxPresses
    /\ presses' = presses + 1
    /\ refreshing' = TRUE
    /\ LoadCalendarCall("loadCalendar")
    /\ UNCHANGED <<storage, sent, alerts, calendarData, syncing, sync>>
    /\ UNCHANGED otherThanDiv

\* loadCalendar (of the mount or of a refresh) after a successful answer.
LoadCalendarOk(r, data) ==
    /\ r \in inflight /\ r.caller = "loadCalendar"
    /\ inflight' = inflight \ {r}
    /\ calendarData' = loadCalendarData(TRUE, data)
    /\ divLoading' = FALSE
    /\ refreshing' = FALSE
    /\ UNCHANGED <<storage, sent, alerts, syncing, sync, presses>>
    /\ UNCHANGED otherThanDiv

\* loadCalendar (of the mount or of a refresh) after a failure.
LoadCalendarFail(r, err) ==
    /\ r \in inflight /\ r.caller = "loadCalendar"
    /\ inflight' = inflight \ {r}
    /\ storage' = responseInterceptor(err.status, storage)
    /\ calendarData' = loadCalendarData(FALSE, Null)
    /\ alerts' = loadCalendarCatch(err, alerts)
    /\ divLoading' = FALSE
    /\ refreshing' = FALSE
    /\ UNCHANGED <<sent, syncing, sync, presses>>
    /\ UNCHANGED otherThanDiv

\* The alert syncDividends ends with once the list was fetched and the
\* calendar reloaded.
SyncSummary(s, hasHoldings) ==
    IF s.totalSymbols = 0 /\ Len(s.list) > 0
    THEN IF hasHoldings
         THEN <<"Sync Complete", <<"Dividends synced, but no dividend events were found for your stocks.">>>>
         ELSE <<"No Stocks Found", <<"Add some stocks to your portfolios to sync dividends">>>>
    ELSE IF Len(s.errors) > 0
         THEN <<"Partial Success",
                <<"Synced stocks from portfolios. Some errors occurred.">>>>
         ELSE <<"Success",
                <<"Synced dividends for stocks from portfolios">>>>

\* The press on "Sync Dividends" (disabled while syncing, not shown while
\* loading): setSyncing(true), GET /portfolios.
syncDividends(limit) ==
    /\ ~divLoading
    /\ ~syncing
    /\ presses < limit
    /\ presses' = presses + 1
    /\ syncing' = TRUE
    /\ sync' = [IdleSync EXCEPT !.pc = "portfolios"]
    /\ inflight' = inflight \cup {Request(inflight, "get", <<"portfolios">>, "sync_portfolios", storage)}
    /\ UNCHANGED <<storage, sent, alerts, calendarData, divLoading, refreshing>>
    /\ UNCHANGED otherThanDiv

SyncDividends == syncDividends(MaxPresses)

\* Mutant: the loop fires the request of the following portfolio as well.
SyncPostAll(i, s, st, fl) ==
    [sync |-> [s EXCEPT !.pc = "post", !.idx = i, !.issued = Append(@, s.list[i])],
     requests |-> {Request(fl, "post", <<"dividends/sync/portfolio", s.list[j]>>,
                           "sync_post", st) : j \in {i, IF i < Len(s.list) THEN i + 1 ELSE i}}]

\* The loop's request for the portfolio at index i of the fetched list.
SyncPost(i, s, st, fl) ==
    [sync |-> [s EXCEPT !.pc = "post", !.idx = i, !.issued = Append(@, s.list[i])],
     requests |-> {Request(fl, "post", <<"dividends/sync/portfolio", s.list[i]>>,
                           "sync_post", st)}]

\* GET /portfolios answered.
SyncPortfoliosOk(r, data) ==
    /\ r \in inflight /\ r.caller = "sync_portfolios"
    /\ IF data = Null \/ Len(data.list) = 0
       THEN /\ alerts' = Push(alerts, "No Portfolios", <<"You need to create a portfolio first">>)
            /\ syncing' = FALSE
            /\ sync' = [sync EXCEPT !.pc = "done", !.summary = "No Portfolios"]
            /\ inflight' = inflight \ {r}
       ELSE LET n == SyncPost(1, [sync EXCEPT !.list = data.list], storage, inflight)
            IN  /\ sync' = n.sync
                /\ inflight' = (inflight \ {r}) \cup n.requests
                /\ UNCHANGED <<alerts, syncing>>
    /\ UNCHANGED <<storage, sent, calendarData, divLoading, refreshing, presses>>
    /\ UNCHANGED otherThanDiv

\* GET /portfolios failed: the outer catch and finally.
SyncPortfoliosFail(r, err) ==
    /\ r \in inflight /\ r.caller = "sync_portfolios"
    /\ inflight' = inflight \ {r}
    /\ storage' = responseInterceptor(err.status, storage)
    /\ alerts' = Push(alerts, "Error", <<DetailOr(err, "Failed to sync dividends")>>)
    /\ syncing' = FALSE
    /\ sync' = [sync EXCEPT !.pc = "done", !.summary = "Error"]
    /\ UNCHANGED <<sent, calendarData, divLoading, refreshing, presses>>
    /\ UNCHANGED otherThanDiv

\* Mutant: the loop counts the symbols as inserted events.
syncCountSymbols(s, result) ==
    IF result # Null /\ result.symbols > 0
    THEN [s EXCEPT !.portfoliosSynced = @ + 1,
                   !.totalSymbols = @ + result.symbols,
                   !.totalInserted = @ + result.symbols]
    ELSE s

\* The loop body after a successful sync call.
syncCount(s, result) ==
    IF result # Null /\ result.symbols > 0
    THEN [s EXCEPT !.portfoliosSynced = @ + 1,
                   !.totalSymbols = @ + result.symbols,
                   !.totalInserted = @ + result.inserted]
    ELSE s

\* Mutant: the catch drops the error.
syncCatchDrops(s, err) == s

\* The loop body's catch: one entry per failed call (the entry names the
\* portfolio; its message text is never shown).
syncCatch(s, err) ==
    [s EXCEPT !.errors = Append(@, s.list[s.idx])]

\* After the loop body of index sync.idx: the next portfolio's request, or,
\* after the last, loadCalendar().
SyncStep(r, s, st) ==
    IF s.idx < Len(s.list)
    THEN LET n == SyncPost(s.idx + 1, s, st, inflight)
         IN  /\ sync' = n.sync
             /\ inflight' = (inflight \ {r}) \cup n.requests
             /\ UNCHANGED divLoading
    ELSE /\ sync' = [s EXCEPT !.pc = "reload"]
         /\ divLoading' = TRUE
         /\ inflight' = (inflight \ {r}) \cup
                {Request(inflight, "get", <<"calendar">>, "sync_reload", st)}

\* The sync call answered; what the backend did for it is the caller's to say.
SyncPostOk(r, result) ==
    /\ r \in inflight /\ r.caller = "sync_post"
    /\ SyncStep(r, syncCount(sync, result), storage)
    /\ UNCHANGED <<storage, sent, alerts, calendarData, refreshing, syncing, presses>>
    /\ UNCHANGED otherThanSync

SyncPostFail(r, err) ==
    /\ r \in inflight /\ r.caller = "sync_post"
    /\ storage' = responseInterceptor(err.status, storage)
    /\ SyncStep(r, syncCatch(sync, err), storage')
    /\ UNCHANGED <<sent, alerts, calendarData, refreshing, syncing, presses>>
    /\ UNCHANGED otherThanDiv

\* After `await loadCalendar()`: the holdings check when nothing was synced,
\* else the summary.
SyncAfterReload(r, al, st) ==
    IF sync.totalSymbols = 0 /\ Len(sync.list) > 0
    THEN /\ sync' = [sync EXCEPT !.pc = "holdings", !.idx = 1]
         /\ inflight' = (inflight \ {r}) \cup
                {Request(inflight, "get", <<"portfolios", sync.list[1]>>, "sync_holdings", st)}
         /\ alerts' = al
         /\ UNCHANGED syncing
    ELSE LET a == SyncSummary(sync, FALSE)
         IN  /\ alerts' = Push(al, a[1], a[2])
             /\ sync' = [sync EXCEPT !.pc = "done", !.summary = a[1]]
             /\ syncing' = FALSE
             /\ inflight' = inflight \ {r}

\* syncDividends' own loadCalendar answered.
SyncReloadOk(r, data) ==
    /\ r \in inflight /\ r.caller = "sync_reload"
    /\ calendarData' = loadCalendarData(TRUE, data)
    /\ divLoading' = FALSE
    /\ refreshing' = FALSE
    /\ SyncAfterReload(r, alerts, storage)
    /\ UNCHANGED <<storage, sent, presses>>
    /\ UNCHANGED otherThanDiv

SyncReloadFail(r, err) ==
    /\ r \in inflight /\ r.caller = "sync_reload"
    /\ storage' = responseInterceptor(err.status, storage)
    /\ calendarData' = loadCalendarData(FALSE, Null)
    /\ divLoading' = FALSE
    /\ refreshing' = FALSE
    /\ SyncAfterReload(r, loadCalendarCatch(err, alerts), storage')
    /\ UNCHANGED <<sent, presses>>
    /\ UNCHANGED otherThanDiv

\* The end of the holdings check: the summary and the finally block.
SyncFinish(r, hasHoldings) ==
    LET a == SyncSummary(sync, hasHoldings)
    IN  /\ alerts' = Push(alerts, a[1], a[2])
        /\ sync' = [sync EXCEPT !.pc = "done", !.summary = a[1]]
        /\ syncing' = FALSE
        /\ inflight' = inflight \ {r}

\* The holdings check: GET /portfolios/{id} answered.
SyncHoldingsOk(r, data) ==
    /\ r \in inflight /\ r.caller = "sync_holdings"
    /\ IF data # Null /\ data.holdings > 0
       THEN SyncFinish(r, TRUE)
       ELSE IF sync.idx < Len(sync.list)
            THEN /\ sync' = [sync EXCEPT !.idx = @ + 1]
                 /\ inflight' = (inflight \ {r}) \cup
                        {Request(inflight, "get", <<"portfolios", sync.list[sync.idx + 1]>>,
                                 "sync_holdings", storage)}
                 /\ UNCHANGED <<alerts, syncing>>
            ELSE SyncFinish(r, FALSE)
    /\ UNCHANGED <<storage, sent, calendarData, divLoading, refreshing, presses>>
    /\ UNCHANGED otherThanDiv

\* The holdings check failed: its catch ignores the error.
SyncHoldingsFail(r, err) ==
    /\ r \in inflight /\ r.caller = "sync_holdings"
    /\ storage' = responseInterceptor(err.status, storage)
    /\ SyncFinish(r, FALSE)
    /\ UNCHANGED <<sent, calendarData, divLoading, refreshing, presses>>
    /\ UNCHANGED otherThanDiv

(* The backend's dividend sync, from its HTTP contract *)

\* The symbols a portfolio holds: the odd portfolios hold AAPL, the even
\* ones nothing.  The holdings do not change.
HeldSymbols(p) == IF p % 2 = 1 THEN {"AAPL"} ELSE {}

\* The dividends the data source knows of a symbol.
DeclaredDividends(symbol) == {"2026-02", "2026-05"}

\* The events a sync of portfolio p finds.
FoundEvents(p) ==
    UNION {{[portfolio |-> p, symbol |-> sym, ex_date |-> d] :
               d \in DeclaredDividends(sym)} : sym \in HeldSymbols(p)}

\* Mutant: the sync reports every event it found as inserted.
backendSyncReinserts(ev, p) ==
    [events |-> ev \cup FoundEvents(p),
     result |-> [symbols |-> Cardinality(HeldSymbols(p)),
                 inserted |-> Cardinality(FoundEvents(p))]]

\* POST /dividends/sync/portfolio/{p}, an upsert: the events not stored yet
\* are inserted and counted.
backendSync(ev, p) ==
    [events |-> ev \cup FoundEvents(p),
     result |-> [symbols |-> Cardinality(HeldSymbols(p)),
                 inserted |-> Cardinality(FoundEvents(p) \ ev)]]

\* GET /calendar: the stored events, in some order.
Calendar(ev) ==
    [events |-> CHOOSE q \in [1 .. Cardinality(ev) -> ev] :
                    \A e \in ev : \E i \in 1 .. Cardinality(ev) : q[i] = e]

\* GET /portfolios: the user's portfolios.
UserPortfolios == [list |-> [i \in 1 .. MaxPortfolios |-> i]]

\* The sync call answered by the backend above.
SyncPostDone(r) ==
    /\ r \in inflight /\ r.caller = "sync_post"
    /\ Authorized(r)
    /\ SyncPostOk(r, backendSync(events, r.path[2]).result)
    /\ events' = backendSync(events, r.path[2]).events
    /\ syncRuns' = [syncRuns EXCEPT ![r.path[2]] = @ + 1]

(* ------------------------- RiskAnalysisScreen ------------------------- *)

\* The two copies of the screen in the repository.
RiskCopies == {"part_002", "RiskAnalysisScreen.tsx"}

\* What the risk endpoints answer with: the no-holdings signal (error set,
\* or has_holdings false or missing, no metrics), or a computed result.
\* The backend's risk scores the model tries: the ends of each band.
RiskScores == {0, 29, 30, 49, 50, 69, 70, 100}

\* The backend's overall_risk_level of a risk_score.
riskLevel(score) ==
    IF score >= 70 THEN "low"
    ELSE IF score >= 50 THEN "moderate"
    ELSE IF score >= 30 THEN "high"
    ELSE "very high"

\* The risk results the backend computes for a portfolio with holdings.
RiskResults ==
    {[error |-> "", has_holdings |-> "true", metrics |-> TRUE,
      risk_score |-> score, overall_risk_level |-> riskLevel(score)] : score \in RiskScores}

RiskResponses ==
    {[error |-> "No holdings", has_holdings |-> "false", metrics |-> FALSE],
     [error |-> "No holdings", has_holdings |-> "undefined", metrics |-> FALSE],
     [error |-> "", has_holdings |-> "false", metrics |-> FALSE]} \cup RiskResults

AnalysisTypes == {"Quick Overview", "Comprehensive"}

\* The endpoint runAnalysis asks.
RiskEndpoint(type, id) ==
    IF type = "Comprehensive" THEN <<"risk/analysis", id>> ELSE <<"risk/metrics", id>>

\* loadPortfolios answered: the first portfolio becomes the selected one.
RiskLoadPortfoliosOk(r, data) ==
    /\ r \in inflight /\ r.caller = "risk_portfolios"
    /\ inflight' = inflight \ {r}
    /\ riskPortfolios' = data.list
    /\ selectedPortfolioId' = IF Len(data.list) > 0 THEN data.list[1] ELSE selectedPortfolioId
    /\ UNCHANGED <<storage, alerts, riskCopy, analysisType, riskLoading, riskData,
                   riskLast, riskRuns>>
    /\ UNCHANGED otherThanRisk

RiskLoadPortfoliosFail(r, err) ==
    /\ r \in inflight /\ r.caller = "risk_portfolios"
    /\ inflight' = inflight \ {r}
    /\ storage' = responseInterceptor(err.status, storage)
    /\ alerts' = Push(alerts, "Error", <<"Failed to load portfolios">>)
    /\ UNCHANGED <<riskCopy, riskPortfolios, selectedPortfolioId, analysisType,
                   riskLoading, riskData, riskLast, riskRuns>>
    /\ UNCHANGED otherThanRisk

\* The portfolio picker.
SelectPortfolio(id) ==
    /\ id \in {riskPortfolios[i] : i \in 1 .. Len(riskPortfolios)}
    /\ id # selectedPortfolioId
    /\ selectedPortfolioId' = id
    /\ UNCHANGED <<storage, inflight, alerts, riskCopy, riskPortfolios, analysisType,
                   riskLoading, riskData, riskLast, riskRuns>>
    /\ UNCHANGED otherThanRisk

\* The analysis type picker.
SelectAnalysisType(type) ==
    /\ type # analysisType
    /\ analysisType' = type
    /\ UNCHANGED <<storage, inflight, alerts, riskCopy, riskPortfolios,
                   selectedPortfolioId, riskLoading, riskData, riskLast, riskRuns>>
    /\ UNCHANGED otherThanRisk

\* The press on "Run Risk Analysis" (disabled while loading or with no
\* portfolio selected): setLoading(true), GET the endpoint.
RunAnalysis ==
    /\ ~riskLoading
    /\ selectedPortfolioId # None
    /\ riskRuns < MaxRuns
    /\ riskRuns' = riskRuns + 1
    /\ riskLoading' = TRUE
    /\ inflight' = inflight \cup
          {Request(inflight, "get", RiskEndpoint(analysisType, selectedPortfolioId),
                   "runAnalysis", storage)}
    /\ UNCHANGED <<storage, alerts, riskCopy, riskPortfolios, selectedPortfolioId,
                   analysisType, riskData, riskLast>>
    /\ UNCHANGED otherThanRisk

\* part_002: `data.error || !data.has_holdings`
noHoldings(data) == data.error # "" \/ data.has_holdings # "true"

\* runAnalysisData without the no-holdings test: the body is the risk data.
runAnalysisDataAsIs(data) == data

\* part_002: riskData after the try block.
runAnalysisData(data) == IF noHoldings(data) THEN Null ELSE data

\* part_002: the catch alerts only for non-500 errors.
runAnalysisAlerts(err) == err.status # 500

\* part_002 runAnalysis, answered.
RunAnalysisOk(r, data) ==
    /\ riskCopy = "part_002"
    /\ r \in inflight /\ r.caller = "runAnalysis"
    /\ inflight' = inflight \ {r}
    /\ riskLast' = [status |-> 200, data |-> data]
    /\ riskData' = runAnalysisData(data)
    /\ riskLoading' = FALSE
    /\ UNCHANGED <<storage, alerts, riskCopy, riskPortfolios, selectedPortfolioId,
                   analysisType, riskRuns>>
    /\ UNCHANGED otherThanRisk

\* part_002 runAnalysis, failed.
RunAnalysisFail(r, err) ==
    /\ riskCopy = "part_002"
    /\ r \in inflight /\ r.caller = "runAnalysis"
    /\ inflight' = inflight \ {r}
    /\ storage' = responseInterceptor(err.status, storage)
    /\ riskLast' = [status |-> err.status, data |-> Null]
    /\ riskData' = Null
    /\ alerts' = IF runAnalysisAlerts(err)
                 THEN Push(alerts, "Error", <<DetailOr(err, "Failed to run risk analysis")>>)
                 ELSE alerts
    /\ riskLoading' = FALSE
    /\ UNCHANGED <<riskCopy, riskPortfolios, selectedPortfolioId, analysisType, riskRuns>>
    /\ UNCHANGED otherThanRisk

\* RiskAnalysisScreen.tsx runAnalysis, answered: the body is the risk data.
RunAnalysisOkTsx(r, data) ==
    /\ riskCopy = "RiskAnalysisScreen.tsx"
    /\ r \in inflight /\ r.caller = "runAnalysis"
    /\ inflight' = inflight \ {r}
    /\ riskLast' = [status |-> 200, data |-> data]
    /\ riskData' = data
    /\ riskLoading' = FALSE
    /\ UNCHANGED <<storage, alerts, riskCopy, riskPortfolios, selectedPortfolioId,
                   analysisType, riskRuns>>
    /\ UNCHANGED otherThanRisk

\* RiskAnalysisScreen.tsx runAnalysis, failed: always the alert, riskData kept.
RunAnalysisFailTsx(r, err) ==
    /\ riskCopy = "RiskAnalysisScreen.tsx"
    /\ r \in inflight /\ r.caller = "runAnalysis"
    /\ inflight' = inflight \ {r}
    /\ storage' = responseInterceptor(err.status, storage)
    /\ riskLast' = [status |-> err.status, data |-> Null]
    /\ alerts' = Push(alerts, "Error", <<DetailOr(err, "Failed to run risk analysis")>>)
    /\ riskLoading' = FALSE
    /\ UNCHANGED <<riskCopy, riskPortfolios, selectedPortfolioId, analysisType,
                   riskData, riskRuns>>
    /\ UNCHANGED otherThanRisk

\* part_002: {!riskData && !loading && selectedPortfolioId && ...}: the
\* 'No Stocks to Analyze' view.
EmptyStateShown ==
    /\ riskCopy = "part_002"
    /\ riskData = Null
    /\ ~riskLoading
    /\ selectedPortfolioId # None

\* {riskData && ...}: the results card, which prints risk_score and the
\* other numbers of riskData.
ResultsShown == riskData # Null

\* theme/colors.ts, and the dark red getRiskColor writes out.
colors ==
    [success |-> "#28A745", warning |-> "#FFC107", error |-> "#DC3545",
     textSecondary |-> "#6C757D"]
DarkRed == "#8B0000"

\* Mutant: getRiskColor of the older copy, which knows three levels.
getRiskColorTsx(level) ==
    CASE toLowerCase(level) = "low" -> colors.success
      [] toLowerCase(level) = "moderate" -> colors.warning
      [] toLowerCase(level) = "high" -> colors.error
      [] OTHER -> colors.textSecondary

\* getRiskColor of part_002; the labels carry no blanks for trim() to cut.
getRiskColor(level) ==
    CASE toLowerCase(level) \in {"low", "very low"} -> colors.success
      [] toLowerCase(level) \in {"moderate", "medium"} -> colors.warning
      [] toLowerCase(level) = "high" -> colors.error
      [] toLowerCase(level) \in {"very high", "extreme"} -> DarkRed
      [] OTHER -> colors.textSecondary

\* The line under the score, chosen by the score itself.
scoreExplanation(score) ==
    IF score >= 70 THEN "Low Risk (70-100)"
    ELSE IF score >= 50 /\ score < 70 THEN "Medium Risk (50-69)"
    ELSE IF score >= 30 /\ score < 50 THEN "High Risk (30-49)"
    ELSE "Very High Risk (0-29)"

\* The risk score card of part_002 for the results shown: the badge's text
\* and colour, and the explanation.
RiskScoreCard(data) ==
    [badge |-> toUpperCase(data.overall_risk_level),
     color |-> getRiskColor(data.overall_risk_level),
     explanation |-> scoreExplanation(data.risk_score)]

(* ------------------- PortfolioScreen, ProfileScreen ------------------- *)

\* What the user can type into a decimal-pad field.
TextInputs == {<<>>, <<".">>, <<"0">>, <<"1", ".", "5">>}

\* What the user can type into the symbol field.
Symbols == {"", "aapl"}

\* parseFloat's "not a number"; no typed text parses to a negative number.
NaN == -1

DigitValue ==
    "0" :> 0 @@ "1" :> 1 @@ "2" :> 2 @@ "3" :> 3 @@ "4" :> 4 @@
    "5" :> 5 @@ "6" :> 6 @@ "7" :> 7 @@ "8" :> 8 @@ "9" :> 9

\* The longest prefix of text made of digits.
RECURSIVE DigitsPrefix(_)
DigitsPrefix(text) ==
    IF text = <<>> \/ Head(text) \notin DOMAIN DigitValue
    THEN <<>>
    ELSE <<Head(text)>> \o DigitsPrefix(Tail(text))

\* The number a sequence of digits writes.
RECURSIVE Decimal(_)
Decimal(digits) ==
    IF digits = <<>>
    THEN 0
    ELSE Decimal(SubSeq(digits, 1, Len(digits) - 1)) * 10 + DigitValue[digits[Len(digits)]]

\* parseFloat, in tenths: the longest prefix digits[.digits] of the text,
\* NaN when it holds no digit.  The first fractional digit is kept.
parseFloat(text) ==
    LET int == DigitsPrefix(text)
        rest == SubSeq(text, Len(int) + 1, Len(text))
        frac == IF rest # <<>> /\ Head(rest) = "." THEN DigitsPrefix(Tail(rest)) ELSE <<>>
    IN  IF int = <<>> /\ frac = <<>>
        THEN NaN
        ELSE Decimal(int) * 10 + (IF frac = <<>> THEN 0 ELSE DigitValue[frac[1]])

\* x <= y and x > y of JavaScript numbers: false when either is NaN.
Le(x, y) == x # NaN /\ y # NaN /\ x <= y
Gt(x, y) == x # NaN /\ y # NaN /\ x > y

\* A request with a JSON body.
Send(fl, method, path, caller, st, body) ==
    [id |-> NewId(fl), method |-> method, path |-> path, caller |-> caller,
     Authorization |-> requestInterceptor(st["supabase_token"]),
     stored |-> st["supabase_token"], body |-> body]

\* loadPortfolio() / loadProfile() called by a continuation that has taken
\* its own request r off the wire.
Reload(r, path, caller, st) ==
    (inflight \ {r}) \cup {Send(inflight \ {r}, "get", path, caller, st, Null)}

(* The backend, from its HTTP contract *)

\* The latest price of AAPL, dollars a share.
Price == 2

\* The backend's portfolio at the start: cash (tenths of a dollar) and the
\* shares (tenths of a share) of its one holding.
InitialDb == [cash_balance |-> 30, shares |-> 20]

\* No trade handled yet.
NoOp == [op |-> "none", amount |-> 0, ok |-> FALSE]

\* POST /holdings/{id}/sell {shares}: shares <= held succeeds and reduces
\* the holding by exactly the sold amount (the proceeds go to the cash
\* balance); more than held is rejected.
backendSell(d, shares) ==
    IF shares # NaN /\ shares > 0 /\ shares <= d.shares
    THEN [ok |-> TRUE,
          db |-> [cash_balance |-> d.cash_balance + Price * shares,
                  shares |-> d.shares - shares]]
    ELSE [ok |-> FALSE, db |-> d]

\* backendBuy without the funds check.
backendBuyOnCredit(d, symbol, shares) ==
    IF symbol = "AAPL" /\ shares # NaN /\ shares > 0
    THEN [ok |-> TRUE,
          db |-> [cash_balance |-> d.cash_balance - Price * shares,
                  shares |-> d.shares + shares]]
    ELSE [ok |-> FALSE, db |-> d]

\* POST /holdings {portfolio_id, symbol, shares}: the cash balance must
\* cover the purchase cost.
backendBuy(d, symbol, shares) ==
    IF symbol = "AAPL" /\ shares # NaN /\ shares > 0 /\ Price * shares <= d.cash_balance
    THEN [ok |-> TRUE,
          db |-> [cash_balance |-> d.cash_balance - Price * shares,
                  shares |-> d.shares + shares]]
    ELSE [ok |-> FALSE, db |-> d]

\* POST /profile/cash/add and /profile/cash/withdraw {amount, portfolio_id}.
backendCash(d, action, amount) ==
    IF amount # NaN /\ amount > 0 /\ (action = "withdraw" => amount <= d.cash_balance)
    THEN [ok |-> TRUE,
          db |-> [d EXCEPT !.cash_balance =
                      IF action = "add" THEN @ + amount ELSE @ - amount]]
    ELSE [ok |-> FALSE, db |-> d]

\* GET /portfolios/{id}
PortfolioDetail(d) ==
    [portfolio |-> [id |-> 1, cash_balance |-> d.cash_balance],
     holdings |-> <<[id |-> 1, symbol |-> "AAPL", shares |-> d.shares]>>]

\* GET /profile
UserProfile(d) == [total_portfolio_cash |-> d.cash_balance]

\* A 4xx answer of the backend's validation, and every other failure (the
\* request was not carried out).
Rejections == {e \in Errors : e.status = 400 /\ e.detail = ServerDetail}
Failures == {e \in Errors : e.status \in {NoResponse, 401} /\ e.detail = NoDetail}

(* PortfolioScreen *)

LoadPortfolioOk(r) ==
    /\ r \in inflight /\ r.caller = "loadPortfolio"
    /\ Authorized(r)
    /\ inflight' = inflight \ {r}
    /\ portfolio' = PortfolioDetail(db).portfolio
    /\ holdings' = PortfolioDetail(db).holdings
    /\ pfLoading' = FALSE
    /\ UNCHANGED <<storage, alerts, backendVars, selectedHolding, profileVars, trades>>
    /\ UNCHANGED otherThanTrade

LoadPortfolioFail(r, err) ==
    /\ r \in inflight /\ r.caller = "loadPortfolio"
    /\ inflight' = inflight \ {r}
    /\ storage' = responseInterceptor(err.status, storage)
    /\ alerts' = Push(alerts, "Error", <<"Failed to load portfolio">>)
    /\ pfLoading' = FALSE
    /\ UNCHANGED <<backendVars, portfolio, holdings, selectedHolding, profileVars, trades>>
    /\ UNCHANGED otherThanTrade

\* The press on a holding's card opens the sell modal for it.
HoldingPress(i) ==
    /\ ~pfLoading
    /\ i \in 1 .. Len(holdings)
    /\ selectedHolding # holdings[i]
    /\ selectedHolding' = holdings[i]
    /\ UNCHANGED <<storage, inflight, alerts, backendVars, portfolio, holdings,
                   pfLoading, profileVars, trades>>
    /\ UNCHANGED otherThanTrade

\* handleSellHolding's first test.
sellInvalid(holding, sellShares) ==
    holding = Null \/ sellShares = <<>> \/ Le(parseFloat(sellShares), 0)

\* The second test without the comparison.
sellExceedsNever(holding, sellShares) == FALSE

\* handleSellHolding's second test.
sellExceeds(holding, sellShares) == Gt(parseFloat(sellShares), holding.shares)

\* The press on Sell in the modal, sellShares being the text of its field.
HandleSellHolding(sellShares) ==
    /\ selectedHolding # Null
    /\ trades < MaxTrades
    /\ trades' = trades + 1
    /\ IF sellInvalid(selectedHolding, sellShares)
       THEN /\ alerts' = Push(alerts, "Error", <<"Please enter valid shares to sell">>)
            /\ inflight' = inflight
       ELSE IF sellExceeds(selectedHolding, sellShares)
       THEN /\ alerts' = Push(alerts, "Error", <<"Cannot sell more shares than you own">>)
            /\ inflight' = inflight
       ELSE /\ alerts' = alerts
            /\ inflight' = inflight \cup
                  {Send(inflight, "post", <<"holdings", selectedHolding.id, "sell">>,
                        "handleSellHolding", storage,
                        [shares |-> parseFloat(sellShares)])}
    /\ UNCHANGED <<storage, backendVars, pfVars, profileVars>>
    /\ UNCHANGED otherThanTrade

\* The backend sold the shares; the screen closes the modal and reloads.
SellOk(r) ==
    /\ r \in inflight /\ r.caller = "handleSellHolding"
    /\ Authorized(r)
    /\ backendSell(db, r.body.shares).ok
    /\ db' = backendSell(db, r.body.shares).db
    /\ lastOp' = [op |-> "sell", amount |-> r.body.shares, ok |-> TRUE]
    /\ selectedHolding' = Null
    /\ inflight' = Reload(r, <<"portfolios", 1>>, "loadPortfolio", storage)
    /\ alerts' = Push(alerts, "Success", <<"Shares sold successfully">>)
    /\ UNCHANGED <<storage, portfolio, holdings, pfLoading, profileVars, trades>>
    /\ UNCHANGED otherThanTrade

\* The backend rejected the sale.
SellRejected(r, err) ==
    /\ r \in inflight /\ r.caller = "handleSellHolding"
    /\ Authorized(r)
    /\ ~backendSell(db, r.body.shares).ok
    /\ lastOp' = [op |-> "sell", amount |-> r.body.shares, ok |-> FALSE]
    /\ inflight' = inflight \ {r}
    /\ alerts' = Push(alerts, "Error", <<DetailOr(err, "Failed to sell shares")>>)
    /\ UNCHANGED <<storage, db, pfVars, profileVars, trades>>
    /\ UNCHANGED otherThanTrade

\* The request failed before the backend handled it.
SellFail(r, err) ==
    /\ r \in inflight /\ r.caller = "handleSellHolding"
    /\ inflight' = inflight \ {r}
    /\ storage' = responseInterceptor(err.status, storage)
    /\ alerts' = Push(alerts, "Error", <<DetailOr(err, "Failed to sell shares")>>)
    /\ UNCHANGED <<backendVars, pfVars, profileVars, trades>>
    /\ UNCHANGED otherThanTrade

\* handleAddHolding's test.
addInvalid(symbol, shares) ==
    symbol = "" \/ shares = <<>> \/ Le(parseFloat(shares), 0)

\* The press on Add in the modal, symbol and shares being the texts of its
\* fields.  The modal's "Insufficient funds" line is a display only.
HandleAddHolding(symbol, shares) ==
    /\ ~pfLoading
    /\ trades < MaxTrades
    /\ trades' = trades + 1
    /\ IF addInvalid(symbol, shares)
       THEN /\ alerts' = Push(alerts, "Error", <<"Please enter valid symbol and shares">>)
            /\ inflight' = inflight
       ELSE /\ alerts' = alerts
            /\ inflight' = inflight \cup
                  {Send(inflight, "post", <<"holdings">>, "handleAddHolding", storage,
                        [portfolio_id |-> 1, symbol |-> toUpperCase(symbol),
                         shares |-> parseFloat(shares)])}
    /\ UNCHANGED <<storage, backendVars, pfVars, profileVars>>
    /\ UNCHANGED otherThanTrade

\* The backend bought the shares; the screen reloads.
BuyOk(r) ==
    /\ r \in inflight /\ r.caller = "handleAddHolding"
    /\ Authorized(r)
    /\ backendBuy(db, r.body.symbol, r.body.shares).ok
    /\ db' = backendBuy(db, r.body.symbol, r.body.shares).db
    /\ lastOp' = [op |-> "buy", amount |-> r.body.shares, ok |-> TRUE]
    /\ inflight' = Reload(r, <<"portfolios", 1>>, "loadPortfolio", storage)
    /\ alerts' = Push(alerts, "Success", <<"Holding added successfully">>)
    /\ UNCHANGED <<storage, pfVars, profileVars, trades>>
    /\ UNCHANGED otherThanTrade

\* The backend rejected the purchase.
BuyRejected(r, err) ==
    /\ r \in inflight /\ r.caller = "handleAddHolding"
    /\ Authorized(r)
    /\ ~backendBuy(db, r.body.symbol, r.body.shares).ok
    /\ lastOp' = [op |-> "buy", amount |-> r.body.shares, ok |-> FALSE]
    /\ inflight' = inflight \ {r}
    /\ alerts' = Push(alerts, "Error", <<DetailOr(err, "Failed to add holding")>>)
    /\ UNCHANGED <<storage, db, pfVars, profileVars, trades>>
    /\ UNCHANGED otherThanTrade

BuyFail(r, err) ==
    /\ r \in inflight /\ r.caller = "handleAddHolding"
    /\ inflight' = inflight \ {r}
    /\ storage' = responseInterceptor(err.status, storage)
    /\ alerts' = Push(alerts, "Error", <<DetailOr(err, "Failed to add holding")>>)
    /\ UNCHANGED <<backendVars, pfVars, profileVars, trades>>
    /\ UNCHANGED otherThanTrade

(* ProfileScreen *)

LoadProfileOk(r) ==
    /\ r \in inflight /\ r.caller = "loadProfile"
    /\ Authorized(r)
    /\ inflight' = inflight \ {r}
    /\ profile' = UserProfile(db)
    /\ UNCHANGED <<storage, alerts, backendVars, pfVars, trades>>
    /\ UNCHANGED otherThanTrade

LoadProfileFail(r, err) ==
    /\ r \in inflight /\ r.caller = "loadProfile"
    /\ inflight' = inflight \ {r}
    /\ storage' = responseInterceptor(err.status, storage)
    /\ alerts' = Push(alerts, "Error", <<"Failed to load profile">>)
    /\ UNCHANGED <<backendVars, pfVars, profileVars, trades>>
    /\ UNCHANGED otherThanTrade

\* handleCashAction's test.
cashInvalid(selected, action, cashAmount) ==
    selected = None \/ action = "" \/ cashAmount = <<>> \/ Le(parseFloat(cashAmount), 0)

\* "Add Cash" or "Withdraw" on the portfolio's card (which sets
\* selectedPortfolio and cashAction), then the press on Confirm in the cash
\* modal, cashAmount being the text of its field.
HandleCashAction(selectedPortfolio, cashAction, cashAmount) ==
    /\ profile # Null
    /\ trades < MaxTrades
    /\ trades' = trades + 1
    /\ IF cashInvalid(selectedPortfolio, cashAction, cashAmount)
       THEN /\ alerts' = Push(alerts, "Error", <<"Please enter a valid amount">>)
            /\ inflight' = inflight
       ELSE /\ alerts' = alerts
            /\ inflight' = inflight \cup
                  {Send(inflight, "post", <<"profile/cash", cashAction>>,
                        "handleCashAction", storage,
                        [amount |-> parseFloat(cashAmount),
                         portfolio_id |-> selectedPortfolio])}
    /\ UNCHANGED <<storage, backendVars, pfVars, profileVars>>
    /\ UNCHANGED otherThanTrade

CashOk(r) ==
    /\ r \in inflight /\ r.caller = "handleCashAction"
    /\ Authorized(r)
    /\ backendCash(db, r.path[2], r.body.amount).ok
    /\ db' = backendCash(db, r.path[2], r.body.amount).db
    /\ lastOp' = [op |-> r.path[2], amount |-> r.body.amount, ok |-> TRUE]
    /\ inflight' = Reload(r, <<"profile">>, "loadProfile", storage)
    /\ alerts' = Push(alerts, "Success",
                      <<"Cash", IF r.path[2] = "add" THEN "added" ELSE "withdrawn",
                        "successfully">>)
    /\ UNCHANGED <<storage, pfVars, profile, trades>>
    /\ UNCHANGED otherThanTrade

CashRejected(r, err) ==
    /\ r \in inflight /\ r.caller = "handleCashAction"
    /\ Authorized(r)
    /\ ~backendCash(db, r.path[2], r.body.amount).ok
    /\ lastOp' = [op |-> r.path[2], amount |-> r.body.amount, ok |-> FALSE]
    /\ inflight' = inflight \ {r}
    /\ alerts' = Push(alerts, "Error",
                      IF err.detail = NoDetail
                      THEN <<"Failed to", r.path[2], "cash">>
                      ELSE <<err.detail>>)
    /\ UNCHANGED <<storage, db, pfVars, profileVars, trades>>
    /\ UNCHANGED otherThanTrade

CashFail(r, err) ==
    /\ r \in inflight /\ r.caller = "handleCashAction"
    /\ inflight' = inflight \ {r}
    /\ storage' = responseInterceptor(err.status, storage)
    /\ alerts' = Push(alerts, "Error",
                      IF err.detail = NoDetail
                      THEN <<"Failed to", r.path[2], "cash">>
                      ELSE <<err.detail>>)
    /\ UNCHANGED <<backendVars, pfVars, profileVars, trades>>
    /\ UNCHANGED otherThanTrade

(* --------------------------- ForecastScreen --------------------------- *)

\* What the user can put into the "Forecast Period" field (typed or pasted).
MonthsInputs ==
    {<<>>, <<"0">>, <<"5">>, <<"0", "5">>, <<"-", "1">>, <<"1", ".", "5">>, <<"a">>}

\* What the user can put into the "Recurring Deposit" field (typed on the
\* numeric keyboard, or pasted).
DepositInputs == {<<>>, <<"0">>, <<"1", ".", "5">>, <<"-", "5">>}

\* The values of the "Growth Scenario" picker the model tries.
GrowthScenarios == {"moderate", "optimistic"}

\* /^\d+$/.test(text)
allDigits(text) ==
    text # <<>> /\ \A i \in 1 .. Len(text) : text[i] \in DOMAIN DigitValue

\* A JavaScript number that may be NaN.
Number(n) == [nan |-> FALSE, value |-> n]
NotANumber == [nan |-> TRUE, value |-> 0]

\* An optional sign, then the digits: shared by parseInt and parseFloat.
signOf(text) == IF text # <<>> /\ Head(text) = "-" THEN -1 ELSE 1
unsigned(text) == IF text # <<>> /\ Head(text) \in {"-", "+"} THEN Tail(text) ELSE text

\* parseInt(text): the integer its longest prefix [sign]digits writes.
parseInt(text) ==
    LET digits == DigitsPrefix(unsigned(text))
    IN  IF digits = <<>> THEN NotANumber ELSE Number(signOf(text) * Decimal(digits))

\* parseFloat(text) of a text that may carry a sign, in tenths.
parseFloatSigned(text) ==
    LET v == parseFloat(unsigned(text))
    IN  IF v = NaN THEN NotANumber ELSE Number(signOf(text) * v)

\* x || 0 of a number x: NaN and 0 are falsy.
orZero(x) == IF x.nan \/ x.value = 0 THEN 0 ELSE x.value

\* num.toString() of a non-negative integer.
RECURSIVE toString(_)
toString(num) ==
    LET last == CHOOSE c \in DOMAIN DigitValue : DigitValue[c] = num % 10
    IN  IF num < 10 THEN <<last>> ELSE toString(num \div 10) \o <<last>>

\* Mutant: onChangeText takes every number.
monthsAcceptedAny(num) == ~num.nan

\* onChangeText's test of the parsed number: !isNaN(num) && num > 0.
monthsAccepted(num) == ~num.nan /\ num.value > 0

\* What POST /forecasts/monthly answers.
ForecastResponses == {Null, [scenarios |-> TRUE]}

\* loadPortfolios resolved.
ForecastLoadPortfoliosOk(r, data) ==
    /\ r \in inflight /\ r.caller = "forecast_portfolios"
    /\ inflight' = inflight \ {r}
    /\ forecastPortfolios' = data.list
    /\ forecastPortfolioId' = IF Len(data.list) > 0 THEN data.list[1] ELSE forecastPortfolioId
    /\ UNCHANGED <<storage, alerts, months, monthsText, growthScenario, reinvest,
                   recurringDeposit, forecastLoading, forecastData, forecasts>>
    /\ UNCHANGED otherThanForecast

\* loadPortfolios' catch.
ForecastLoadPortfoliosFail(r, err) ==
    /\ r \in inflight /\ r.caller = "forecast_portfolios"
    /\ inflight' = inflight \ {r}
    /\ storage' = responseInterceptor(err.status, storage)
    /\ alerts' = Push(alerts, "Error", <<"Failed to load portfolios">>)
    /\ UNCHANGED forecastVars
    /\ UNCHANGED otherThanForecast

\* The portfolio picker's onValueChange.
SelectForecastPortfolio(id) ==
    /\ "Forecast" \in mounted
    /\ \E i \in 1 .. Len(forecastPortfolios) : forecastPortfolios[i] = id
    /\ forecastPortfolioId # id
    /\ forecastPortfolioId' = id
    /\ UNCHANGED <<storage, inflight, alerts, forecastPortfolios, months, monthsText,
                   growthScenario, reinvest, recurringDeposit, forecastLoading,
                   forecastData, forecasts>>
    /\ UNCHANGED otherThanForecast

\* onChangeText of the "Forecast Period" field.
MonthsChangeText(text) ==
    /\ "Forecast" \in mounted
    /\ IF text = <<>> \/ allDigits(text)
       THEN /\ monthsText' = text
            /\ months' = IF monthsAccepted(parseInt(text))
                         THEN parseInt(text).value ELSE months
       ELSE UNCHANGED <<monthsText, months>>
    /\ UNCHANGED <<storage, inflight, alerts, forecastPortfolios, forecastPortfolioId,
                   growthScenario, reinvest, recurringDeposit, forecastLoading,
                   forecastData, forecasts>>
    /\ UNCHANGED otherThanForecast

\* onBlur of the "Forecast Period" field.
MonthsBlur ==
    /\ "Forecast" \in mounted
    /\ LET num == parseInt(monthsText)
       IN  IF num.nan \/ num.value <= 0
           THEN /\ monthsText' = <<"1", "2">>
                /\ months' = 12
           ELSE /\ monthsText' = toString(num.value)
                /\ months' = months
    /\ UNCHANGED <<storage, inflight, alerts, forecastPortfolios, forecastPortfolioId,
                   growthScenario, reinvest, recurringDeposit, forecastLoading,
                   forecastData, forecasts>>
    /\ UNCHANGED otherThanForecast

\* The "Growth Scenario" picker's onValueChange.
SetGrowthScenario(scenario) ==
    /\ "Forecast" \in mounted
    /\ growthScenario # scenario
    /\ growthScenario' = scenario
    /\ UNCHANGED <<storage, inflight, alerts, forecastPortfolios, forecastPortfolioId,
                   months, monthsText, reinvest, recurringDeposit, forecastLoading,
                   forecastData, forecasts>>
    /\ UNCHANGED otherThanForecast

\* onChangeText of the "Recurring Deposit" field: setRecurringDeposit.
SetRecurringDeposit(text) ==
    /\ "Forecast" \in mounted
    /\ recurringDeposit # text
    /\ recurringDeposit' = text
    /\ UNCHANGED <<storage, inflight, alerts, forecastPortfolios, forecastPortfolioId,
                   months, monthsText, growthScenario, reinvest, forecastLoading,
                   forecastData, forecasts>>
    /\ UNCHANGED otherThanForecast

\* The press on the "Reinvest Dividends" checkbox.
ToggleReinvest ==
    /\ "Forecast" \in mounted
    /\ reinvest' = ~reinvest
    /\ UNCHANGED <<storage, inflight, alerts, forecastPortfolios, forecastPortfolioId,
                   months, monthsText, growthScenario, recurringDeposit, forecastLoading,
                   forecastData, forecasts>>
    /\ UNCHANGED otherThanForecast

\* The press on "Run Forecast"; the button is disabled while loading and
\* while no portfolio is selected, so runForecast's own test never fails.
RunForecast ==
    /\ "Forecast" \in mounted
    /\ ~forecastLoading /\ forecastPortfolioId # None
    /\ forecasts < MaxForecasts
    /\ forecasts' = forecasts + 1
    /\ forecastLoading' = TRUE
    /\ inflight' = inflight \cup
          {Send(inflight, "post", <<"forecasts/monthly">>, "runForecast", storage,
                [portfolio_id |-> forecastPortfolioId,
                 months |-> months,
                 assume_reinvest |-> reinvest,
                 recurring_deposit |-> orZero(parseFloatSigned(recurringDeposit)),
                 growth_scenario |-> growthScenario])}
    /\ UNCHANGED <<storage, alerts, forecastPortfolios, forecastPortfolioId, months,
                   monthsText, growthScenario, reinvest, recurringDeposit, forecastData>>
    /\ UNCHANGED otherThanForecast

\* runForecast resolved.
RunForecastOk(r, data) ==
    /\ r \in inflight /\ r.caller = "runForecast"
    /\ inflight' = inflight \ {r}
    /\ forecastData' = data
    /\ forecastLoading' = FALSE
    /\ UNCHANGED <<storage, alerts, forecastPortfolios, forecastPortfolioId, months,
                   monthsText, growthScenario, reinvest, recurringDeposit, forecasts>>
    /\ UNCHANGED otherThanForecast

\* runForecast's catch and finally.
RunForecastFail(r, err) ==
    /\ r \in inflight /\ r.caller = "runForecast"
    /\ inflight' = inflight \ {r}
    /\ storage' = responseInterceptor(err.status, storage)
    /\ alerts' = Push(alerts, "Error", <<DetailOr(err, "Failed to run forecast")>>)
    /\ forecastLoading' = FALSE
    /\ UNCHANGED <<forecastPortfolios, forecastPortfolioId, months, monthsText,
                   growthScenario, reinvest, recurringDeposit, forecastData, forecasts>>
    /\ UNCHANGED otherThanForecast

(* ----------------------------- HomeScreen ----------------------------- *)

\* What the user can type into the "Portfolio Name" field.
NameInputs == {<<>>, <<" ">>, <<"a">>, <<" ", "a">>}

PortfolioTypes == {"individual", "retirement"}

\* String.prototype.trim
RECURSIVE trimStart(_)
trimStart(text) ==
    IF text # <<>> /\ Head(text) = " " THEN trimStart(Tail(text)) ELSE text

RECURSIVE trimEnd(_)
trimEnd(text) ==
    IF text # <<>> /\ text[Len(text)] = " "
    THEN trimEnd(SubSeq(text, 1, Len(text) - 1))
    ELSE text

trim(text) == trimEnd(trimStart(text))

\* What GET /profile answers.
HomeProfiles == {[portfolios |-> n] : n \in 0 .. 1}

\* error.message, which axios sets on every error it rejects with.
Message(err) ==
    IF err.status = NoResponse THEN "Network Error" ELSE "Request failed"

\* loadProfile(isRetry) called from a render that saw the given loading and
\* retryCount: the request carries what the closure captured.
HomeLoadProfile(fl, st, isRetry, sawLoading, sawRetryCount) ==
    Send(fl, "get", <<"profile">>, "home_loadProfile", st,
         [isRetry |-> isRetry, loading |-> sawLoading, retryCount |-> sawRetryCount])

\* The main view is rendered (neither the spinner nor the error view).
HomeShown == "Home" \in mounted /\ ~homeLoading /\ homeProfile # Null

\* loadProfile resolved.
HomeLoadProfileOk(r, data) ==
    /\ r \in inflight /\ r.caller = "home_loadProfile"
    /\ inflight' = inflight \ {r}
    /\ homeProfile' = data
    /\ hasError' = FALSE
    /\ retryCount' = 0
    /\ homeLoading' = FALSE
    /\ homeRefreshing' = FALSE
    /\ UNCHANGED <<storage, alerts, showCreateModal, newPortfolioName, newPortfolioType,
                   creating, retryTimers, homePresses>>
    /\ UNCHANGED otherThanHome

\* Mutant: the failure of a retried load leaves the spinner on.
HomeLoadProfileFailKeepsLoading(r, err) ==
    /\ r \in inflight /\ r.caller = "home_loadProfile"
    /\ inflight' = inflight \ {r}
    /\ storage' = responseInterceptor(err.status, storage)
    /\ IF r.body.loading /\ r.body.retryCount < 2 /\ ~r.body.isRetry
       THEN /\ retryTimers' = Append(retryTimers, r.body)
            /\ UNCHANGED <<homeLoading, hasError, alerts>>
       ELSE /\ homeLoading' = (homeLoading /\ r.body.isRetry)
            /\ hasError' = TRUE
            /\ alerts' = IF ~r.body.isRetry
                         THEN Push(alerts, "Failed to Load Profile",
                                   <<DetailOr(err, Message(err))>>)
                         ELSE alerts
            /\ UNCHANGED retryTimers
    /\ homeRefreshing' = FALSE
    /\ UNCHANGED <<homeProfile, showCreateModal, newPortfolioName, newPortfolioType,
                   creating, retryCount, homePresses>>
    /\ UNCHANGED otherThanHome

\* loadProfile's catch: the first load that fails arms a retry timer and
\* keeps loading; every other failure stops loading and shows the error.
HomeLoadProfileFail(r, err) ==
    /\ r \in inflight /\ r.caller = "home_loadProfile"
    /\ inflight' = inflight \ {r}
    /\ storage' = responseInterceptor(err.status, storage)
    /\ IF r.body.loading /\ r.body.retryCount < 2 /\ ~r.body.isRetry
       THEN /\ retryTimers' = Append(retryTimers, r.body)
            /\ UNCHANGED <<homeLoading, hasError, alerts>>
       ELSE /\ homeLoading' = FALSE
            /\ hasError' = TRUE
            /\ alerts' = IF ~r.body.isRetry
                         THEN Push(alerts, "Failed to Load Profile",
                                   <<DetailOr(err, Message(err))>>)
                         ELSE alerts
            /\ UNCHANGED retryTimers
    /\ homeRefreshing' = FALSE
    /\ UNCHANGED <<homeProfile, showCreateModal, newPortfolioName, newPortfolioType,
                   creating, retryCount, homePresses>>
    /\ UNCHANGED otherThanHome

\* The retry timer fires after its second: setRetryCount(prev => prev + 1),
\* loadProfile(true) of the closure that armed it.
HomeRetryTimer ==
    /\ retryTimers # <<>>
    /\ retryTimers' = Tail(retryTimers)
    /\ retryCount' = retryCount + 1
    /\ inflight' = inflight \cup
          {HomeLoadProfile(inflight, storage, TRUE, Head(retryTimers).loading,
                           Head(retryTimers).retryCount)}
    /\ UNCHANGED <<storage, alerts, homeProfile, homeLoading, homeRefreshing,
                   showCreateModal, newPortfolioName, newPortfolioType, creating,
                   hasError, homePresses>>
    /\ UNCHANGED otherThanHome

\* The pull to refresh.
HomeOnRefresh ==
    /\ HomeShown
    /\ homePresses < MaxHomePresses
    /\ homePresses' = homePresses + 1
    /\ homeRefreshing' = TRUE
    /\ inflight' = inflight \cup
          {HomeLoadProfile(inflight, storage, FALSE, homeLoading, retryCount)}
    /\ UNCHANGED <<storage, alerts, homeProfile, homeLoading, showCreateModal,
                   newPortfolioName, newPortfolioType, creating, retryCount, hasError,
                   retryTimers>>
    /\ UNCHANGED otherThanHome

\* The press on Retry in the error view.
HomeRetryPress ==
    /\ "Home" \in mounted /\ ~homeLoading /\ homeProfile = Null /\ hasError
    /\ homePresses < MaxHomePresses
    /\ homePresses' = homePresses + 1
    /\ retryCount' = 0
    /\ hasError' = FALSE
    /\ homeLoading' = TRUE
    /\ inflight' = inflight \cup
          {HomeLoadProfile(inflight, storage, FALSE, homeLoading, retryCount)}
    /\ UNCHANGED <<storage, alerts, homeProfile, homeRefreshing, showCreateModal,
                   newPortfolioName, newPortfolioType, creating, retryTimers>>
    /\ UNCHANGED otherThanHome

\* The press on "Create Portfolio" on the main view opens the modal.
OpenCreateModal ==
    /\ HomeShown
    /\ ~showCreateModal
    /\ showCreateModal' = TRUE
    /\ UNCHANGED <<storage, inflight, alerts, homeProfile, homeLoading, homeRefreshing,
                   newPortfolioName, newPortfolioType, creating, retryCount, hasError,
                   retryTimers, homePresses>>
    /\ UNCHANGED otherThanHome

\* The modal's close button.
CloseCreateModal ==
    /\ HomeShown
    /\ showCreateModal
    /\ showCreateModal' = FALSE
    /\ newPortfolioName' = <<>>
    /\ newPortfolioType' = "individual"
    /\ UNCHANGED <<storage, inflight, alerts, homeProfile, homeLoading, homeRefreshing,
                   creating, retryCount, hasError, retryTimers, homePresses>>
    /\ UNCHANGED otherThanHome

\* The press on the overlay around the modal.
DismissCreateModal ==
    /\ HomeShown
    /\ showCreateModal
    /\ showCreateModal' = FALSE
    /\ UNCHANGED <<storage, inflight, alerts, homeProfile, homeLoading, homeRefreshing,
                   newPortfolioName, newPortfolioType, creating, retryCount, hasError,
                   retryTimers, homePresses>>
    /\ UNCHANGED otherThanHome

\* onChangeText of the "Portfolio Name" field.
SetNewPortfolioName(text) ==
    /\ HomeShown
    /\ showCreateModal
    /\ newPortfolioName # text
    /\ newPortfolioName' = text
    /\ UNCHANGED <<storage, inflight, alerts, homeProfile, homeLoading, homeRefreshing,
                   showCreateModal, newPortfolioType, creating, retryCount, hasError,
                   retryTimers, homePresses>>
    /\ UNCHANGED otherThanHome

\* The "Portfolio Type" picker's onValueChange.
SetNewPortfolioType(type) ==
    /\ HomeShown
    /\ showCreateModal
    /\ newPortfolioType # type
    /\ newPortfolioType' = type
    /\ UNCHANGED <<storage, inflight, alerts, homeProfile, homeLoading, homeRefreshing,
                   showCreateModal, newPortfolioName, creating, retryCount, hasError,
                   retryTimers, homePresses>>
    /\ UNCHANGED otherThanHome

\* The press on "Create Portfolio" in the modal (disabled while creating).
CreatePortfolio ==
    /\ HomeShown
    /\ showCreateModal /\ ~creating
    /\ homePresses < MaxHomePresses
    /\ homePresses' = homePresses + 1
    /\ IF trim(newPortfolioName) = <<>>
       THEN /\ alerts' = Push(alerts, "Error", <<"Please enter a portfolio name">>)
            /\ UNCHANGED <<inflight, creating>>
       ELSE /\ alerts' = alerts
            /\ creating' = TRUE
            /\ inflight' = inflight \cup
                  {Send(inflight, "post", <<"portfolios">>, "createPortfolio", storage,
                        [name |-> trim(newPortfolioName),
                         portfolio_type |-> newPortfolioType,
                         loading |-> homeLoading, retryCount |-> retryCount])}
    /\ UNCHANGED <<storage, homeProfile, homeLoading, homeRefreshing, showCreateModal,
                   newPortfolioName, newPortfolioType, retryCount, hasError, retryTimers>>
    /\ UNCHANGED otherThanHome

\* createPortfolio resolved: the modal closes and the profile is reloaded by
\* the loadProfile the pressed button's render had.
CreatePortfolioOk(r) ==
    /\ r \in inflight /\ r.caller = "createPortfolio"
    /\ alerts' = Push(alerts, "Success", <<"Portfolio created successfully!">>)
    /\ showCreateModal' = FALSE
    /\ newPortfolioName' = <<>>
    /\ newPortfolioType' = "individual"
    /\ inflight' = (inflight \ {r}) \cup
          {HomeLoadProfile(inflight \ {r}, storage, FALSE, r.body.loading,
                           r.body.retryCount)}
    /\ creating' = FALSE
    /\ UNCHANGED <<storage, homeProfile, homeLoading, homeRefreshing, retryCount,
                   hasError, retryTimers, homePresses>>
    /\ UNCHANGED otherThanHome

\* createPortfolio's catch and finally.
CreatePortfolioFail(r, err) ==
    /\ r \in inflight /\ r.caller = "createPortfolio"
    /\ inflight' = inflight \ {r}
    /\ storage' = responseInterceptor(err.status, storage)
    /\ alerts' = Push(alerts, "Error", <<DetailOr(err, "Failed to create portfolio")>>)
    /\ creating' = FALSE
    /\ UNCHANGED <<homeProfile, homeLoading, homeRefreshing, showCreateModal,
                   newPortfolioName, newPortfolioType, retryCount, hasError,
                   retryTimers, homePresses>>
    /\ UNCHANGED otherThanHome

(* ------------------------------- claims ------------------------------- *)

\* The failures with status 401.
Unauthorized == {e \in Errors : e.status = 401}

StorageCleared ==
    /\ storage["supabase_token"] = None
    /\ storage["supabase_user"] = None

\* C1 (as claimed): when a request is answered 401, then by the time the
\* error reaches the caller supabase_token and supabase_user are removed and
\* the app holds no signed-in session (user, session) any more.
C1_InvalidatesSessionOn401 ==
    [][\A r \in inflight, e \in Errors :
          (e.status = 401 /\ ApiReject(r, e))
             => (StorageCleared' /\ user' = None /\ session' = None)]_vars

\* C2: every request in flight carries 'Authorization: Bearer <token>' for
\* the token stored when it was sent, and no Authorization header when no
\* token was stored then.
C2_BearerOfStoredToken ==
    \A r \in inflight :
        /\ r.stored \in Tokens => r.Authorization = <<"Bearer", r.stored>>
        /\ r.stored = None => r.Authorization = <<>>
        /\ r.caller = "init" => r.stored \in Tokens

\* C2 witness: a request sent with token 2 stored and a request sent with no
\* token stored are in flight together.
C2_Witness ==
    \E r1, r2 \in inflight :
        /\ r1.stored = 2 /\ r1.Authorization = <<"Bearer", 2>>
        /\ r2.stored = None /\ r2.Authorization = <<>>

\* A request of the Dividends screen fails with err.
DividendsFail(r, err) ==
    \/ LoadCalendarFail(r, err)
    \/ SyncPortfoliosFail(r, err)
    \/ SyncPostFail(r, err)
    \/ SyncReloadFail(r, err)
    \/ SyncHoldingsFail(r, err)

\* C3 (as claimed): a failure with status 401 clears the stored session and
\* no screen shows an alert for it.
C3_SilentOn401 ==
    [][\A r \in inflight, e \in Unauthorized :
          DividendsFail(r, e) => (StorageCleared' /\ alerts' = alerts)]_vars

\* C3 (amended): a failure with status 401 clears the stored token and user,
\* but it is not silent on every screen: loadCalendar treats it like any
\* failure other than 500 and shows its 'Error' alert (with the response's
\* detail, or its fallback text).
C3_ClearedButAlerted ==
    [][\A r \in inflight, e \in Unauthorized :
          /\ DividendsFail(r, e) => StorageCleared'
          /\ LoadCalendarFail(r, e)
                => /\ alerts'.count = alerts.count + 1
                   /\ alerts'.last[1] = "Error"
                   /\ alerts'.last[2] \in {<<ServerDetail>>, <<"Failed to load dividend calendar">>}
          /\ SyncReloadFail(r, e) => alerts'.count > alerts.count]_vars

\* C3 witness: the mount's loadCalendar has failed with 401: the storage is
\* cleared (the user still set), and the 'Error' alert is up.
C3_Witness ==
    /\ StorageCleared
    /\ user # None
    /\ alerts = [count |-> 1, last |-> <<"Error", <<"Failed to load dividend calendar">>>>]
    /\ calendarData = EmptyCalendar
    /\ presses = 0

\* The sync requests in flight.
SyncPostsInFlight == {r \in inflight : r.caller = "sync_post"}

SyncPath(i) == <<"dividends/sync/portfolio", sync.list[i]>>

\* C4: syncDividends issues exactly one POST /dividends/sync/portfolio/{id}
\* for every portfolio of the fetched list, in order, whatever the earlier
\* calls answered; a failed call adds one entry to errors and the loop goes
\* on with the next portfolio.
C4_OnePostPerPortfolio ==
    /\ [](/\ sync.pc = "post" => sync.issued = SubSeq(sync.list, 1, sync.idx)
          /\ sync.pc \in {"reload", "holdings"} => sync.issued = sync.list
          /\ (sync.pc = "done" /\ sync.summary \notin {"No Portfolios", "Error"})
               => sync.issued = sync.list)
    /\ [][\A r \in inflight, e \in Errors :
             SyncPostFail(r, e)
                => /\ sync'.errors = Append(sync.errors, sync.list[sync.idx])
                   /\ sync.idx < Len(sync.list)
                        => /\ sync'.pc = "post"
                           /\ sync'.idx = sync.idx + 1
                           /\ \E q \in inflight' : q.path = SyncPath(sync.idx + 1)
                   /\ sync.idx = Len(sync.list) => sync'.pc = "reload"]_vars

\* C4 witness: a run over two portfolios has ended; the first portfolio's
\* call failed and the second was still issued, and counted.
C4_Witness ==
    /\ sync.pc = "done"
    /\ Len(sync.list) = 2
    /\ sync.errors = <<1>>
    /\ sync.issued = <<1, 2>>
    /\ sync.totalSymbols > 0

\* C5 (as claimed): when the list was fetched and some portfolio's sync call
\* failed, syncDividends ends with the 'Partial Success' summary.
C5_ErrorsReported ==
    (sync.pc = "done" /\ Len(sync.errors) > 0) => sync.summary = "Partial Success"

\* C6 (as claimed): the per-portfolio requests are parallel: when the answer
\* for one portfolio arrives, the request for the next portfolio of the list
\* is already in flight.
C6_ParallelRequests ==
    [][\A r \in inflight, d \in SyncResults, e \in Errors :
          ((SyncPostOk(r, d) \/ SyncPostFail(r, e)) /\ sync.idx < Len(sync.list))
             => \E q \in inflight : q.path = SyncPath(sync.idx + 1)]_vars

\* C6 (amended): the per-portfolio requests are sent one after the other: at
\* most one is in flight at any time, it is the one for the portfolio at the
\* loop's index, and no later portfolio's request has been sent.
C6_SequentialRequests ==
    /\ Cardinality(SyncPostsInFlight) <= 1
    /\ sync.pc = "post"
         => /\ \A r \in SyncPostsInFlight : r.path = SyncPath(sync.idx)
            /\ Cardinality(SyncPostsInFlight) = 1
            /\ Len(sync.issued) = sync.idx
    /\ sync.pc # "post" => SyncPostsInFlight = {}

\* C6 witness: the second portfolio's request is in flight, the first one's
\* has been answered.
C6_Witness ==
    /\ sync.pc = "post"
    /\ sync.idx = 2
    /\ Cardinality(SyncPostsInFlight) = 1

\* The claim's own wording of the signal: error set, or has_holdings false.
NoHoldingsSignal(data) == data.error # "" \/ data.has_holdings = "false"

RiskFail(r, err) == RunAnalysisFail(r, err) \/ RunAnalysisFailTsx(r, err)

\* C8: a failed runAnalysis (Risk screen) never leaves earlier results on
\* screen: riskData becomes null and loading ends; for status 500 no alert
\* is shown, for any other failure exactly one.
C8_FailureClearsResults ==
    [][\A r \in inflight, e \in Errors :
          RiskFail(r, e)
             => /\ riskData' = Null
                /\ ~riskLoading'
                /\ e.status = 500 => alerts' = alerts
                /\ e.status # 500 => alerts'.count = alerts.count + 1]_vars

\* C8 as it holds of the part_002 copy alone (kept for the record of what
\* the newer copy does).
C8_Part002ClearsResults ==
    [][\A r \in inflight, e \in Errors :
          RunAnalysisFail(r, e)
             => /\ riskData' = Null
                /\ ~riskLoading'
                /\ e.status = 500 => alerts' = alerts
                /\ e.status # 500 => alerts'.count = alerts.count + 1]_vars

\* C9: a sell of s shares of a holding with h shares that the backend
\* handles succeeds when 0 < s <= h and leaves exactly h - s shares, and is
\* rejected with the holding unchanged when s > h; handleSellHolding, given
\* more shares than the selected holding has, shows 'Cannot sell more shares
\* than you own' and sends no request; the shares held never go below zero.
C9_SellWithinHolding ==
    /\ [](db.shares >= 0)
    /\ [][\A r \in inflight, e \in Rejections :
             (SellOk(r) \/ SellRejected(r, e))
                => LET s == r.body.shares
                       h == db.shares
                   IN  /\ (0 < s /\ s <= h)
                          => /\ db'.shares = h - s
                             /\ lastOp'.ok
                             /\ alerts'.last = <<"Success", <<"Shares sold successfully">>>>
                       /\ s > h
                          => /\ db' = db
                             /\ ~lastOp'.ok
                             /\ alerts'.last[1] = "Error"]_vars
    /\ [][\A t \in TextInputs :
             (HandleSellHolding(t) /\ parseFloat(t) > selectedHolding.shares)
                => /\ inflight' = inflight
                   /\ db' = db
                   /\ alerts'.count = alerts.count + 1
                   /\ alerts'.last = <<"Error", <<"Cannot sell more shares than you own">>>>]_vars

\* 1.5 of the 2 shares were sold, the screen reloaded, and a second sale of
\* 1.5 shares of the remaining 0.5 was refused by handleSellHolding.
C9_Witness ==
    /\ lastOp = [op |-> "sell", amount |-> 15, ok |-> TRUE]
    /\ db.shares = 5
    /\ selectedHolding # Null
    /\ selectedHolding.shares = 5
    /\ inflight = {}
    /\ alerts.last = <<"Error", <<"Cannot sell more shares than you own">>>>

\* C10: every buy the backend carries out costs (price x shares) no more
\* than the cash balance at that time and is paid from it, and a buy whose
\* cost exceeds the cash balance is not carried out.
C10_CashCoversPurchase ==
    [][\A r \in inflight, e \in Rejections :
          (BuyOk(r) \/ BuyRejected(r, e))
             => LET cost == Price * r.body.shares
                IN  /\ db' # db
                       => /\ cost <= db.cash_balance
                          /\ db'.cash_balance = db.cash_balance - cost
                          /\ db'.shares = db.shares + r.body.shares
                    /\ cost > db.cash_balance
                       => /\ db' = db
                          /\ ~lastOp'.ok
                          /\ alerts'.last[1] = "Error"]_vars

\* A first buy was carried out, and a second one, which the remaining cash
\* does not cover, was rejected.
C10_Witness ==
    /\ lastOp = [op |-> "buy", amount |-> 15, ok |-> FALSE]
    /\ db.shares > InitialDb.shares
    /\ Price * lastOp.amount > db.cash_balance
    /\ alerts.last = <<"Error", <<ServerDetail>>>>

(* C11: a failed create-portfolio, buy, sell, cash or forecast request whose
   response carries a detail is reported by an alert holding exactly that
   detail; one without a detail by the fixed fallback of its handler. *)
Fallback(r) ==
    IF r.caller = "createPortfolio" THEN <<"Failed to create portfolio">>
    ELSE IF r.caller = "handleAddHolding" THEN <<"Failed to add holding">>
    ELSE IF r.caller = "handleSellHolding" THEN <<"Failed to sell shares">>
    ELSE IF r.caller = "runForecast" THEN <<"Failed to run forecast">>
    ELSE <<"Failed to", r.path[2], "cash">>

RequestFails(r, err) ==
    \/ CreatePortfolioFail(r, err)
    \/ BuyRejected(r, err) \/ BuyFail(r, err)
    \/ SellRejected(r, err) \/ SellFail(r, err)
    \/ CashRejected(r, err) \/ CashFail(r, err)
    \/ RunForecastFail(r, err)

C11_DetailShownVerbatim ==
    [][\A r \in inflight \ inflight', e \in Errors :
          RequestFails(r, e) =>
             alerts'.last = <<"Error", IF e.detail # NoDetail
                                       THEN <<e.detail>> ELSE Fallback(r)>>]_vars

\* A forecast failed with a detail and the alert shows it.
C11_Witness ==
    /\ "Forecast" \in mounted /\ forecasts > 0 /\ ~forecastLoading
    /\ alerts.last = <<"Error", <<ServerDetail>>>>

(* C12: under every sequence of edits and blurs of the "Forecast Period"
   field months is a positive integer, and every POST /forecasts/monthly
   carries months >= 1. *)
ForecastRequests == {r \in inflight : r.caller = "runForecast"}

C12_MonthsPositive ==
    /\ months \in Nat \ {0}
    /\ \A r \in ForecastRequests : r.body.months \in Nat \ {0}

\* "0" was typed over the field (months keeps its value) and a forecast
\* was requested.
C12_Witness ==
    /\ monthsText = <<"0">>
    /\ ForecastRequests # {}

(* C13: whatever text the "Recurring Deposit" field holds, the
   recurring_deposit runForecast sends is >= 0. *)
C13_DepositNonNegative ==
    \A r \in ForecastRequests : r.body.recurring_deposit >= 0

(* C14: every risk result has its risk_score in [0,100] and the
   overall_risk_level its band prescribes (>= 70 low, 50-69 moderate, 30-49
   high, < 30 very high); the badge, its colour and the explanation the
   part_002 copy of the Risk screen shows are those of that band. *)
Bands ==
    [b \in {"low", "moderate", "high", "very high"} |->
        CASE b = "low" -> [from |-> 70, to |-> 100, badge |-> "LOW",
                           color |-> "#28A745", explanation |-> "Low Risk (70-100)"]
          [] b = "moderate" -> [from |-> 50, to |-> 69, badge |-> "MODERATE",
                                color |-> "#FFC107", explanation |-> "Medium Risk (50-69)"]
          [] b = "high" -> [from |-> 30, to |-> 49, badge |-> "HIGH",
                            color |-> "#DC3545", explanation |-> "High Risk (30-49)"]
          [] b = "very high" -> [from |-> 0, to |-> 29, badge |-> "VERY HIGH",
                                 color |-> "#8B0000", explanation |-> "Very High Risk (0-29)"]]

C16_RootFollowsAuth ==
    /\ []((~loading /\ ~navPending) =>
            IF user = None
            THEN routes = <<"Login">>
            ELSE routes \in {<<"Main">>, <<"Main", "Portfolio">>})
    /\ [][(NavigatorEffect /\ ~loading) =>
             routes' = <<IF user = None THEN "Login" ELSE "Main">>]_vars

\* A user who was signed in has signed out (the POST of the sign-in
\* is still on its way) and the stack is Login alone.
C16_Witness ==
    /\ user = None /\ ~loading /\ ~navPending
    /\ \E r \in inflight : r.caller = "init"
    /\ routes = <<"Login">>

(* C17: the loading flag of AuthProvider becomes false after startup,
   whether getSession resolves with a session, resolves without one,
   rejects, or has not answered when the 5-second timer fires; and once it
   is false it is never true again. *)
C17_LoadingEnds ==
    /\ <>(~loading)
    /\ [][(~loading) => ~loading']_vars

\* The session check is over without a session, and loading is false.
C17_Witness ==
    /\ sessionCheck = "done"
    /\ session = None
    /\ ~loading

(* C18: signIn returns an object without error whenever Supabase returned
   a session, whether the awaited POST /me/init-supabase succeeds or fails;
   when Supabase reports an error, returns no session or throws, signIn
   returns an object with an error; it never throws. *)
C18_SignInResult ==
    /\ [](signInResult.kind # "threw")
    /\ [][\A r \in inflight \ inflight' :
             (SignInInitOk(r) \/ \E e \in Errors : SignInInitFail(r, e))
                => signInResult' = Returned("")]_vars
    /\ [][\A o \in SupabaseOutcomes :
             (o.kind # "session" /\ SignInSupabase(o))
                => signInResult'.kind = "returned" /\ signInResult'.error # ""]_vars

\* signIn has returned without error although its POST was refused with
\* 401: the token that signIn had stored is gone again.
C18_Witness ==
    /\ signInPc = "idle" /\ signInVia = "password"
    /\ signInResult = Returned("")
    /\ sent = 1 /\ inflight = {}
    /\ session = None
    /\ storage["supabase_token"] = None

(* C19: signInWithBiometric calls signIn, with the saved credentials, only
   after the biometric check has succeeded and with biometric_email and
   biometric_password both stored; when the check fails, is cancelled or
   throws, it returns an error, having neither read the saved credentials
   nor called Supabase. *)
C19_BiometricGate ==
    /\ []((signInVia = "biometric" /\ supabaseCalled) =>
             /\ credentialsRead
             /\ signInArgs.email # None /\ signInArgs.password # None)
    /\ [][\A o \in BiometricOutcomes : BiometricAnswer(o) =>
             /\ supabaseCalled' =>
                   /\ o.kind = "success"
                   /\ hasBiometricCredentials(storage)
                   /\ signInArgs' = [email |-> storage["biometric_email"],
                                     password |-> storage["biometric_password"]]
             /\ o.kind # "success" =>
                   /\ ~credentialsRead' /\ ~supabaseCalled'
                   /\ signInResult'.kind = "returned" /\ signInResult'.error # ""]_vars

\* The biometric check has passed with both credentials saved, and signIn
\* is waiting for Supabase.
C19_Witness ==
    /\ signInVia = "biometric" /\ signInPc = "supabase"
    /\ supabaseCalled /\ credentialsRead
    /\ hasBiometricCredentials(storage)

(* C20: signOut removes supabase_token and supabase_user from the storage
   and leaves biometric_email and biometric_password as they are, so that
   hasBiometricCredentials answers after signing out what it answered
   before. *)
C20_SignOutKeepsBiometric ==
    [][SignOut =>
         /\ storage'["supabase_token"] = None
         /\ storage'["supabase_user"] = None
         /\ storage'["biometric_email"] = storage["biometric_email"]
         /\ storage'["biometric_password"] = storage["biometric_password"]
         /\ hasBiometricCredentials(storage') = hasBiometricCredentials(storage)]_vars

\* The user has signed in with the password, saved the credentials and is
\* signed out: the credentials are still there.
C20_Witness ==
    /\ user = None /\ session = None
    /\ signInVia = "password" /\ signInResult = Returned("")
    /\ storage["supabase_token"] = None
    /\ storage["supabase_user"] = None
    /\ hasBiometricCredentials(storage)
    /\ navPending

(* C21: when the first load of the profile on the Home screen fails, the
   load is retried by itself up to 2 times while loading is kept, and the
   screen stops loading and shows the error only when these retries are
   used up: before any press of the user, the error view is shown only
   after 2 retries. *)
C21_ErrorOnlyAfterTwoRetries ==
    (homePresses = 0 /\ ~homeLoading /\ hasError) => retryCount >= 2

(* C22: on the Home screen, every profile request being answered in the
   end, loading always becomes false after the mount and after a press on
   Retry; whenever loading is false either the profile is set and hasError
   is false, or hasError is true; and the automatic retries are bounded
   (retryCount never exceeds 2). *)
C22_LoadingSettles ==
    /\ homeLoading ~> ~homeLoading
    /\ [](~homeLoading => \/ homeProfile # Null /\ ~hasError
                          \/ hasError)
    /\ [](retryCount <= 2)

\* Retry was pressed in the error view and the load it started has failed:
\* loading is false again and the error view is back.
C22_Witness ==
    /\ homePresses = 1 /\ retryCount = 0
    /\ ~homeLoading /\ hasError /\ homeProfile = Null
    /\ inflight = {}

\* Saved credentials are known, biometrics are available, the Login screen
\* is in sign-in mode, no sign-in is in progress and the automatic prompt
\* has not been made.
AutoPromptAllowed ==
    /\ hasSavedCredentials /\ biometricAvailable
    /\ ~isSignUp
    /\ ~loginLoading /\ ~biometricLoading /\ signInPc = "idle"
    /\ ~hasAutoPrompted

(* C23: on the Login screen the biometric sign-in is triggered by itself
   only with saved credentials, biometrics available, the sign-in mode and
   no password or biometric sign-in in progress; each trigger sets
   hasAutoPrompted, which on a mounted screen only a switch to the sign-up
   mode resets, so it happens at most once until then; and its timer is
   pending only while all these conditions hold: any change of them cancels
   it. *)
C23_AutoPrompt ==
    /\ []((autoTimer /\ LoginMounted) => AutoPromptAllowed)
    /\ [][AutoPromptFires => (AutoPromptAllowed /\ hasAutoPrompted')]_vars
    /\ [][(LoginMounted' /\ hasAutoPrompted /\ ~hasAutoPrompted')
             => (~isSignUp /\ isSignUp')]_vars

\* The timer has fired: the biometric prompt is on the screen without any
\* press.
C23_Witness ==
    /\ hasAutoPrompted /\ biometricLoading /\ ~autoTimer
    /\ signInPc = "prompt" /\ signInVia = "biometric"
    /\ alerts = NoAlerts

(* C24: a sign-up that succeeds without creating a session makes the Login
   screen show the "Account Created!" message, whose acknowledgement
   switches the screen to the sign-in mode: every answer of Supabase to a
   sign-up that carries neither an error nor a session opens that dialog. *)
C24_AccountCreatedShown ==
    [][\A o \in SupabaseOutcomes :
         (o.kind = "nosession" /\ SignUpAnswer(o)) =>
            /\ verifyDialog'
            /\ alerts'.last[1] = "Account Created!"]_vars

\* The calendar day the device's clock shows.
LocalDay(now, utcOffset) == (now + utcOffset) \div HoursPerDay

InList(e, list) == \E i \in 1 .. Len(list) : list[i] = e

(* C25: on the Dividends screen, whatever the clock and the time zone of
   the device, every event of the calendar that has a pay_date or an
   ex_date is in exactly one of the lists upcoming and past: in upcoming
   when the day of its pay_date (of its ex_date when it has no pay_date) is
   today or later, in past when that day is before today; an event with
   both dates null is in neither list. *)
C25_UpcomingOrPast ==
    calendarData # Null =>
        \A now \in Clocks, utcOffset \in UtcOffsets :
            \A i \in 1 .. Len(calendarData.events) :
                LET e == calendarData.events[i]
                    up == InList(e, upcomingEvents(calendarData, now, utcOffset))
                    past == InList(e, pastEvents(calendarData, now, utcOffset))
                IN  IF e.pay_date = Null /\ e.ex_date = Null
                    THEN ~up /\ ~past
                    ELSE /\ up # past
                         /\ up = (eventDateStr(e).day >= LocalDay(now, utcOffset))

(* --------------------------- specifications --------------------------- *)

InitApi ==
    /\ inflight = {}
    /\ sent = 0

SignedOutStorage == [k \in StorageKeys |-> None]

SignedInStorage(token) ==
    [k \in StorageKeys |->
        IF k = "supabase_token" THEN token
        ELSE IF k = "supabase_user" THEN UserOf(token) ELSE None]

\* AuthProvider as constructed: the session check is pending.
InitProvider ==
    /\ user = None
    /\ session = None
    /\ loading = TRUE
    /\ sessionCheck = "pending"

\* AuthProvider with a user signed in (the screens are only shown then).
InitSignedIn ==
    /\ storage = SignedInStorage(1)
    /\ user = UserOf(1)
    /\ session = 1
    /\ loading = FALSE
    /\ sessionCheck = "done"

\* AppNavigator while the provider is loading, and with the user on Main.
InitNavLoading ==
    /\ routes = <<>>
    /\ navPending = FALSE

InitNavMain ==
    /\ routes = <<"Main">>
    /\ navPending = FALSE

\* LoginScreen as it mounts, with hasBiometricCredentials not yet answered.
InitLoginMounted ==
    /\ isSignUp = FALSE
    /\ loginLoading = FALSE
    /\ biometricLoading = FALSE
    /\ hasSavedCredentials = FALSE
    /\ hasAutoPrompted = FALSE
    /\ credentials = None
    /\ autoTimer = FALSE
    /\ verifyDialog = FALSE
    /\ offer = FALSE
    /\ credentialsCheck = "pending"

\* The Login screen takes no part.
InitLoginIdle ==
    /\ InitLoginMounted
    /\ biometricAvailable = FALSE

\* No call of signIn or signInWithBiometric yet.
InitSignInIdle ==
    /\ signInPc = "idle"
    /\ signInVia = "password"
    /\ signInArgs = NoArgs
    /\ signInResult = NoResult
    /\ credentialsRead = FALSE
    /\ supabaseCalled = FALSE
    /\ signIns = 0

\* The backend's dividend store before any sync.
InitStore ==
    /\ events = {}
    /\ syncRuns = [p \in 1 .. MaxPortfolios |-> 0]

\* DividendsScreen before it is mounted.
InitDivIdle ==
    /\ calendarData = Null
    /\ divLoading = TRUE
    /\ refreshing = FALSE
    /\ syncing = FALSE
    /\ sync = IdleSync
    /\ presses = 0

\* PortfolioScreen and ProfileScreen before they are mounted.
InitTradeIdle ==
    /\ db = InitialDb
    /\ lastOp = NoOp
    /\ portfolio = Null
    /\ holdings = <<>>
    /\ pfLoading = TRUE
    /\ selectedHolding = Null
    /\ profile = Null
    /\ trades = 0

\* ForecastScreen before it is mounted.
InitForecastIdle ==
    /\ forecastPortfolios = <<>>
    /\ forecastPortfolioId = None
    /\ months = 12
    /\ monthsText = <<"1", "2">>
    /\ growthScenario = "moderate"
    /\ reinvest = TRUE
    /\ recurringDeposit = <<"0">>
    /\ forecastLoading = FALSE
    /\ forecastData = Null
    /\ forecasts = 0

\* HomeScreen before it is mounted.
InitHomeIdle ==
    /\ homeProfile = Null
    /\ homeLoading = TRUE
    /\ homeRefreshing = FALSE
    /\ showCreateModal = FALSE
    /\ newPortfolioName = <<>>
    /\ newPortfolioType = "individual"
    /\ creating = FALSE
    /\ retryCount = 0
    /\ hasError = FALSE
    /\ retryTimers = <<>>
    /\ homePresses = 0

\* RiskAnalysisScreen before it is mounted.
InitRiskIdle ==
    /\ riskCopy = "part_002"
    /\ riskPortfolios = <<>>
    /\ selectedPortfolioId = None
    /\ analysisType = "Quick Overview"
    /\ riskLoading = FALSE
    /\ riskData = Null
    /\ riskLast = [status |-> 200, data |-> Null]
    /\ riskRuns = 0

InitAuth ==
    /\ storage \in {SignedOutStorage, SignedInStorage(1)}
    /\ InitProvider
    /\ InitApi
    /\ alerts = NoAlerts
    /\ InitDivIdle
    /\ InitRiskIdle
    /\ InitTradeIdle
    /\ mounted = {}
    /\ InitForecastIdle
    /\ InitHomeIdle
    /\ InitStore
    /\ InitNavLoading
    /\ InitSignInIdle
    /\ InitLoginIdle

NextAuth ==
    \/ \E m \in Methods : ApiCall(m) /\ AppNavigatorRender
          /\ UNCHANGED loginVars
    \/ \E r \in inflight : ApiResolve(r) /\ AppNavigatorRender
          /\ UNCHANGED loginVars
    \/ \E r \in inflight, e \in Errors : ApiReject(r, e) /\ AppNavigatorRender
          /\ UNCHANGED loginVars
    \/ \E hasData \in BOOLEAN, sess \in Tokens \cup {None} :
          SessionCheckThen(hasData, sess) /\ AppNavigatorRender
          /\ UNCHANGED loginVars
    \/ SessionCheckCatch /\ AppNavigatorRender
          /\ UNCHANGED loginVars
    \/ \E sess \in Tokens \cup {None} : OnAuthStateChange(sess) /\ AppNavigatorRender
          /\ UNCHANGED loginVars
    \/ SignOut /\ AppNavigatorRender
          /\ UNCHANGED loginVars
    \/ NavigatorEffect /\ UNCHANGED loginVars
    \/ NavigatePortfolio /\ UNCHANGED loginVars
    \/ GoBack /\ UNCHANGED loginVars

SpecAuth == InitAuth /\ [][NextAuth]_vars

\* The timer of the session check fires if nothing has settled the race.
SpecAuthTimer ==
    /\ SpecAuth
    /\ WF_vars(SessionCheckTimeout /\ AppNavigatorRender /\ UNCHANGED loginVars)

\* The Login screen, shown after a startup that found no session; biometric
\* credentials may have been saved in an earlier run of the app.
InitSignIn ==
    /\ storage \in {[SignedOutStorage EXCEPT !["biometric_email"] = e,
                                             !["biometric_password"] = p] :
                     e \in Accounts \cup {None}, p \in Accounts \cup {None}}
    /\ user = None
    /\ session = None
    /\ loading = FALSE
    /\ sessionCheck = "done"
    /\ InitApi
    /\ alerts = NoAlerts
    /\ InitDivIdle
    /\ InitRiskIdle
    /\ InitTradeIdle
    /\ mounted = {}
    /\ InitForecastIdle
    /\ InitHomeIdle
    /\ InitStore
    /\ routes = <<"Login">>
    /\ navPending = FALSE
    /\ InitSignInIdle
    /\ InitLoginIdle

NextSignIn ==
    \/ \E a \in Accounts : SignIn(a, a) /\ AppNavigatorRender
          /\ UNCHANGED <<alerts, loginVars>>
    \/ \E o \in SupabaseOutcomes : SignInSupabase(o) /\ AppNavigatorRender
          /\ UNCHANGED <<alerts, loginVars>>
    \/ \E r \in inflight : SignInInitOk(r) /\ AppNavigatorRender
          /\ UNCHANGED <<alerts, loginVars>>
    \/ \E r \in inflight, e \in Errors : SignInInitFail(r, e) /\ AppNavigatorRender
          /\ UNCHANGED <<alerts, loginVars>>
    \/ \E saved \in 0 .. 2 : SaveBiometricCredentials(saved) /\ AppNavigatorRender
          /\ UNCHANGED <<alerts, loginVars>>
    \/ SignInWithBiometric /\ AppNavigatorRender
          /\ UNCHANGED <<alerts, loginVars>>
    \/ \E o \in BiometricOutcomes : BiometricAnswer(o) /\ AppNavigatorRender
          /\ UNCHANGED <<alerts, loginVars>>
    \/ \E sess \in Tokens \cup {None} : OnAuthStateChange(sess) /\ AppNavigatorRender
          /\ UNCHANGED <<alerts, loginVars>>
    \/ SignOut /\ AppNavigatorRender
          /\ UNCHANGED <<alerts, loginVars>>
    \/ \E r \in inflight : r.caller = "init" /\ ApiResolve(r) /\ AppNavigatorRender
          /\ UNCHANGED <<alerts, loginVars>>
    \/ \E r \in inflight, e \in Errors :
          r.caller = "init" /\ ApiReject(r, e) /\ AppNavigatorRender
          /\ UNCHANGED <<alerts, loginVars>>
    \/ NavigatorEffect /\ UNCHANGED loginVars

SpecSignIn == InitSignIn /\ [][NextSignIn]_vars

\* The Login screen as it mounts after a startup that found no session,
\* until the navigator replaces it.  Biometric credentials may have been
\* saved in an earlier run, and the provider may already know that
\* biometrics are available.
InitLogin ==
    /\ storage \in {SignedOutStorage,
                    [SignedOutStorage EXCEPT !["biometric_email"] = 1,
                                             !["biometric_password"] = 1]}
    /\ user = None
    /\ session = None
    /\ loading = FALSE
    /\ sessionCheck = "done"
    /\ InitApi
    /\ alerts = NoAlerts
    /\ InitDivIdle
    /\ InitRiskIdle
    /\ InitTradeIdle
    /\ mounted = {}
    /\ InitForecastIdle
    /\ InitHomeIdle
    /\ InitStore
    /\ routes = <<"Login">>
    /\ navPending = FALSE
    /\ InitSignInIdle
    /\ InitLoginMounted
    /\ biometricAvailable \in BOOLEAN

NextLogin ==
    \/ CheckBiometricCredentials
    \/ CheckBiometricAvailability
    \/ \E a \in Accounts : SetCredentials(a)
    \/ ToggleSignUp
    \/ HandleSubmitEmpty
    \/ HandleSubmitSignIn /\ AppNavigatorRender
    \/ \E o \in SupabaseOutcomes : SignInSupabase(o) /\ HandlerResumes /\ AppNavigatorRender
    \/ \E r \in inflight : SignInInitOk(r) /\ HandlerResumes /\ AppNavigatorRender
    \/ \E r \in inflight, e \in Failures :
          SignInInitFail(r, e) /\ HandlerResumes /\ AppNavigatorRender
    \/ \E saved \in 0 .. 2 : EnableBiometric(saved) /\ AppNavigatorRender
    \/ DeclineBiometric
    \/ HandleSubmitSignUp /\ AppNavigatorRender
    \/ \E o \in SupabaseOutcomes : SignUpAnswer(o) /\ AppNavigatorRender
    \/ AcknowledgeAccountCreated
    \/ BiometricPress /\ AppNavigatorRender
    \/ AutoPromptFires /\ AppNavigatorRender
    \/ \E o \in BiometricOutcomes : BiometricAnswer(o) /\ HandlerResumes /\ AppNavigatorRender
    \/ /\ storage["supabase_token"] # None
       /\ OnAuthStateChange(storage["supabase_token"])
       /\ AppNavigatorRender
       /\ UNCHANGED loginVars
    \/ \E r \in inflight :
          r.caller = "init" /\ ApiResolve(r) /\ AppNavigatorRender /\ UNCHANGED loginVars
    \/ \E r \in inflight, e \in Failures :
          r.caller = "init" /\ ApiReject(r, e) /\ AppNavigatorRender /\ UNCHANGED loginVars
    \/ LoginNavigatorEffect

SpecLogin == InitLogin /\ [][NextLogin]_vars

\* DividendsScreen as mounted: useEffect has called loadCalendar().
InitDividends ==
    /\ InitSignedIn
    /\ alerts = NoAlerts
    /\ calendarData = Null
    /\ divLoading = TRUE
    /\ refreshing = FALSE
    /\ syncing = FALSE
    /\ sync = IdleSync
    /\ presses = 0
    /\ sent = 0
    /\ inflight = {Request({}, "get", <<"calendar">>, "loadCalendar", storage)}
    /\ InitRiskIdle
    /\ InitTradeIdle
    /\ mounted = {"Dividends"}
    /\ InitForecastIdle
    /\ InitHomeIdle
    /\ InitStore
    /\ InitNavMain
    /\ InitSignInIdle
    /\ InitLoginIdle

NextDividends ==
    \/ OnRefresh
    \/ \E r \in inflight, d \in CalendarResponses : LoadCalendarOk(r, d)
    \/ \E r \in inflight, e \in Errors : LoadCalendarFail(r, e)
    \/ SyncDividends
    \/ \E r \in inflight, d \in PortfolioLists : SyncPortfoliosOk(r, d)
    \/ \E r \in inflight, e \in Errors : SyncPortfoliosFail(r, e)
    \/ \E r \in inflight, d \in SyncResults : SyncPostOk(r, d) /\ UNCHANGED storeVars
    \/ \E r \in inflight, e \in Errors : SyncPostFail(r, e)
    \/ \E r \in inflight, d \in CalendarResponses : SyncReloadOk(r, d)
    \/ \E r \in inflight, e \in Errors : SyncReloadFail(r, e)
    \/ \E r \in inflight, d \in PortfolioDetails : SyncHoldingsOk(r, d)
    \/ \E r \in inflight, e \in Errors : SyncHoldingsFail(r, e)

SpecDividends == InitDividends /\ [][NextDividends]_vars

\* DividendsScreen as mounted, the answers of GET /calendar carrying events
\* with their dates.
InitCalendar == InitDividends

NextCalendar ==
    \/ OnRefresh
    \/ \E r \in inflight, d \in DatedCalendars : LoadCalendarOk(r, d)
    \/ \E r \in inflight, e \in Errors : LoadCalendarFail(r, e)

SpecCalendar == InitCalendar /\ [][NextCalendar]_vars

\* RiskAnalysisScreen (either copy) as mounted: useEffect has called
\* loadPortfolios().
InitRisk ==
    /\ InitSignedIn
    /\ alerts = NoAlerts
    /\ InitDivIdle
    /\ sent = 0
    /\ riskCopy \in RiskCopies
    /\ riskPortfolios = <<>>
    /\ selectedPortfolioId = None
    /\ analysisType = "Quick Overview"
    /\ riskLoading = FALSE
    /\ riskData = Null
    /\ riskLast = [status |-> 200, data |-> Null]
    /\ riskRuns = 0
    /\ inflight = {Request({}, "get", <<"portfolios">>, "risk_portfolios", storage)}
    /\ InitTradeIdle
    /\ mounted = {"Risk"}
    /\ InitForecastIdle
    /\ InitHomeIdle
    /\ InitStore
    /\ InitNavMain
    /\ InitSignInIdle
    /\ InitLoginIdle

NextRisk ==
    \/ \E r \in inflight, d \in PortfolioLists \ {Null} : RiskLoadPortfoliosOk(r, d)
    \/ \E r \in inflight, e \in Errors : RiskLoadPortfoliosFail(r, e)
    \/ \E id \in 1 .. MaxPortfolios : SelectPortfolio(id)
    \/ \E t \in AnalysisTypes : SelectAnalysisType(t)
    \/ RunAnalysis
    \/ \E r \in inflight, d \in RiskResponses : RunAnalysisOk(r, d)
    \/ \E r \in inflight, e \in Errors : RunAnalysisFail(r, e)
    \/ \E r \in inflight, d \in RiskResponses : RunAnalysisOkTsx(r, d)
    \/ \E r \in inflight, e \in Errors : RunAnalysisFailTsx(r, e)

SpecRisk == InitRisk /\ [][NextRisk]_vars

\* PortfolioScreen and ProfileScreen as mounted: their effects have called
\* loadPortfolio() and loadProfile().
InitTrade ==
    /\ InitSignedIn
    /\ alerts = NoAlerts
    /\ InitDivIdle
    /\ InitRiskIdle
    /\ mounted = {"Portfolio", "Profile"}
    /\ InitForecastIdle
    /\ InitHomeIdle
    /\ sent = 0
    /\ db = InitialDb
    /\ lastOp = NoOp
    /\ portfolio = Null
    /\ holdings = <<>>
    /\ pfLoading = TRUE
    /\ selectedHolding = Null
    /\ profile = Null
    /\ trades = 0
    /\ inflight =
          LET first == Send({}, "get", <<"portfolios", 1>>, "loadPortfolio", storage, Null)
          IN  {first, Send({first}, "get", <<"profile">>, "loadProfile", storage, Null)}
    /\ InitStore
    /\ routes = <<"Main", "Portfolio">>
    /\ navPending = FALSE
    /\ InitSignInIdle
    /\ InitLoginIdle

NextTrade ==
    \/ \E r \in inflight : LoadPortfolioOk(r)
    \/ \E r \in inflight, e \in Failures : LoadPortfolioFail(r, e)
    \/ \E i \in 1 .. Len(holdings) : HoldingPress(i)
    \/ \E t \in TextInputs : HandleSellHolding(t)
    \/ \E r \in inflight : SellOk(r)
    \/ \E r \in inflight, e \in Rejections : SellRejected(r, e)
    \/ \E r \in inflight, e \in Failures : SellFail(r, e)
    \/ \E sym \in Symbols, t \in TextInputs : HandleAddHolding(sym, t)
    \/ \E r \in inflight : BuyOk(r)
    \/ \E r \in inflight, e \in Rejections : BuyRejected(r, e)
    \/ \E r \in inflight, e \in Failures : BuyFail(r, e)
    \/ \E r \in inflight : LoadProfileOk(r)
    \/ \E r \in inflight, e \in Failures : LoadProfileFail(r, e)
    \/ \E a \in {"add", "withdraw"}, t \in TextInputs : HandleCashAction(1, a, t)
    \/ \E r \in inflight : CashOk(r)
    \/ \E r \in inflight, e \in Rejections : CashRejected(r, e)
    \/ \E r \in inflight, e \in Failures : CashFail(r, e)

SpecTrade == InitTrade /\ [][NextTrade]_vars

\* ForecastScreen as mounted: useEffect has called loadPortfolios().
InitForecast ==
    /\ InitSignedIn
    /\ alerts = NoAlerts
    /\ InitDivIdle
    /\ InitRiskIdle
    /\ InitTradeIdle
    /\ InitHomeIdle
    /\ sent = 0
    /\ mounted = {"Forecast"}
    /\ InitForecastIdle
    /\ inflight = {Send({}, "get", <<"portfolios">>, "forecast_portfolios", storage, Null)}
    /\ InitStore
    /\ InitNavMain
    /\ InitSignInIdle
    /\ InitLoginIdle

\* Loading the portfolios, choosing one and running the forecast.
NextForecastRuns ==
    \/ \E r \in inflight, d \in PortfolioLists \ {Null} : ForecastLoadPortfoliosOk(r, d)
    \/ \E r \in inflight, e \in Errors : ForecastLoadPortfoliosFail(r, e)
    \/ \E id \in 1 .. MaxPortfolios : SelectForecastPortfolio(id)
    \/ RunForecast
    \/ \E r \in inflight, d \in ForecastResponses : RunForecastOk(r, d)
    \/ \E r \in inflight, e \in Errors : RunForecastFail(r, e)

NextForecast ==
    \/ NextForecastRuns
    \/ \E t \in MonthsInputs : MonthsChangeText(t)
    \/ MonthsBlur
    \/ \E g \in GrowthScenarios : SetGrowthScenario(g)
    \/ \E t \in DepositInputs : SetRecurringDeposit(t)
    \/ ToggleReinvest

SpecForecast == InitForecast /\ [][NextForecast]_vars

\* HomeScreen as mounted: useEffect has called loadProfile() of the first
\* render.
InitHome ==
    /\ InitSignedIn
    /\ alerts = NoAlerts
    /\ InitDivIdle
    /\ InitRiskIdle
    /\ InitTradeIdle
    /\ InitForecastIdle
    /\ sent = 0
    /\ mounted = {"Home"}
    /\ InitHomeIdle
    /\ inflight = {HomeLoadProfile({}, storage, FALSE, TRUE, 0)}
    /\ InitStore
    /\ InitNavMain
    /\ InitSignInIdle
    /\ InitLoginIdle

NextHome ==
    \/ \E r \in inflight, d \in HomeProfiles : HomeLoadProfileOk(r, d)
    \/ \E r \in inflight, e \in Errors : HomeLoadProfileFail(r, e)
    \/ HomeRetryTimer
    \/ HomeOnRefresh
    \/ HomeRetryPress
    \/ OpenCreateModal
    \/ CloseCreateModal
    \/ DismissCreateModal
    \/ \E t \in NameInputs : SetNewPortfolioName(t)
    \/ \E t \in PortfolioTypes : SetNewPortfolioType(t)
    \/ CreatePortfolio
    \/ \E r \in inflight : CreatePortfolioOk(r)
    \/ \E r \in inflight, e \in Errors : CreatePortfolioFail(r, e)

SpecHome == InitHome /\ [][NextHome]_vars

\* Every profile request is answered in the end, and the retry timer fires
\* after its second.
HomeLoadProfileAnswered ==
    \E r \in inflight :
        \/ \E d \in HomeProfiles : HomeLoadProfileOk(r, d)
        \/ \E e \in Errors : HomeLoadProfileFail(r, e)

SpecHomeAnswered ==
    /\ SpecHome
    /\ WF_vars(HomeLoadProfileAnswered)
    /\ WF_vars(HomeRetryTimer)

\* The user on one of the screens that post a trade, a forecast or a new
\* portfolio.  The fields of the Forecast screen keep the texts they start
\* with: no alert depends on them.
InitAlerts == InitTrade \/ InitForecast \/ InitHome

NextAlerts == NextTrade \/ NextForecastRuns \/ NextHome

SpecAlerts == InitAlerts /\ [][NextAlerts]_vars

\* DividendsScreen in front of the backend's dividend store: the successful
\* answers are the backend's.
InitSync == InitDividends

NextSync ==
    \/ OnRefresh
    \/ \E r \in inflight : LoadCalendarOk(r, Calendar(events))
    \/ \E r \in inflight, e \in Failures : LoadCalendarFail(r, e)
    \/ syncDividends(MaxSyncs)
    \/ \E r \in inflight : SyncPortfoliosOk(r, UserPortfolios)
    \/ \E r \in inflight, e \in Failures : SyncPortfoliosFail(r, e)
    \/ \E r \in inflight : SyncPostDone(r)
    \/ \E r \in inflight, e \in Failures : SyncPostFail(r, e)
    \/ \E r \in inflight : SyncReloadOk(r, Calendar(events))
    \/ \E r \in inflight, e \in Failures : SyncReloadFail(r, e)
    \/ \E r \in inflight :
          SyncHoldingsOk(r, [holdings |-> Cardinality(HeldSymbols(r.path[2]))])
    \/ \E r \in inflight, e \in Failures : SyncHoldingsFail(r, e)

SpecSync == InitSync /\ [][NextSync]_vars

====
